---------------------------- MODULE Spec2Model ----------------------------
(***************************************************************************)
(* Model of data_layer.locator.ResourceLocator: the locator-parameter      *)
(* codec, the URL merge and the alias registry with its resolver.          *)
(*                                                                         *)
(* A URL string is held as the record of its components.  Paths and hosts  *)
(* are sequences of one-character strings, so that slicing, splitting and  *)
(* joining are computed character by character; the other components are   *)
(* strings drawn from small alphabets, with the conversions urllib applies *)
(* to them (lower-casing, unquoting, quoting, ordering) given as tables.   *)
(* Python's None for a string-valued component is the string NoneValue;    *)
(* a missing hostname is the empty sequence (urllib never returns '').     *)
(***************************************************************************)
EXTENDS Integers, Sequences, FiniteSets, TLC

VARIABLES
  registry,        \* ResourceLocator.registry: alias -> registered URL
  pc,              \* "idle", "dealias" (inside the recursion), "returned", "raised"
  op,              \* the classmethod that was called last
  arg_url,         \* its url argument
  arg_base_url,    \* its base_url argument
  arg_parameters,  \* its parameters argument
  arg_alias,       \* its alias argument
  url,             \* the url of the current dealias_url invocation
  chain,           \* the _chain of the current dealias_url invocation
  hops,            \* number of dealias_url invocations of the current call
  trail,           \* the registry lookups of the current call, in order
  ret,             \* what the call returned or raised
  enc_registry,    \* Encryptor.registry: name -> encryptor
  dec_registry,    \* Decryptor.registry: name -> decryptor
  encryptor_registries,  \* Cryptor.encryptor_registries: stack of saved registries
  decryptor_registries,  \* Cryptor.decryptor_registries: stack of saved registries
  scopes,          \* the open local_registries() scopes: registries on entry
  optimize,        \* the interpreter runs with -O: assert statements are removed
  arg_data,        \* the data argument of the first call
  arg_metadata,    \* the metadata argument
  arg_options,     \* the other arguments: key, initialization_vector, name, ...
  arg_self,        \* the encryptor and the decryptor the methods are called on
  sealed,          \* what the reading side is handed: bytes and metadata
  locator,         \* the locator a method is called on: class, url, safe
  resource,        \* the resource argument of put, transform and untransform
  environment,     \* what the call meets: working directory, what the backend does
  effects          \* what the call ran, in order: steps and backend operations

locatorVars == <<registry, arg_url, arg_base_url, arg_parameters, arg_alias,
                 url, chain, hops, trail>>

cryptVars == <<enc_registry, dec_registry, encryptor_registries,
               decryptor_registries, scopes, optimize, arg_data, arg_metadata,
               arg_options, arg_self, sealed>>

backendVars == <<locator, resource, environment, effects>>

vars == <<registry, pc, op, arg_url, arg_base_url, arg_parameters, arg_alias,
          url, chain, hops, trail, ret, enc_registry, dec_registry,
          encryptor_registries, decryptor_registries, scopes, optimize,
          arg_data, arg_metadata, arg_options, arg_self, sealed,
          locator, resource, environment, effects>>

-----------------------------------------------------------------------------
(* Bounds of the model *)

MaxPathLen == 3

MaxQueryLen == 2

NumAliases == 3

-----------------------------------------------------------------------------
(* Strings *)

NoneValue == "None"

\* a URL string with the given scheme, host, path and query and nothing else
Url(scheme, host, path, query) ==
  [scheme |-> scheme, username |-> NoneValue, password |-> NoneValue,
   host |-> host, port |-> NoneValue, path |-> path, params |-> "",
   query |-> query, fragment |-> ""]

\* the empty string
NoUrl == Url("", <<>>, <<>>, <<>>)

NoRet == [kind |-> "none"]

\* str.lower() on one character / on a character sequence
LowerChar(c) == IF c = "A" THEN "a" ELSE IF c = "B" THEN "b" ELSE c

Lower(s) == [i \in 1..Len(s) |-> LowerChar(s[i])]

\* str.lower() on the scheme alphabet
LowerScheme(s) ==
  IF s = "HTTPS" THEN "https"
  ELSE IF s = "ALIAS" THEN "alias"
  ELSE IF s = "S3" THEN "s3"
  ELSE s

\* s[i:] for a character sequence (Python slice, 0-based start)
SliceFrom(s, i) == IF i >= Len(s) THEN <<>> ELSE SubSeq(s, i + 1, Len(s))

\* s[:i]
SliceTo(s, i) == IF i >= Len(s) THEN s ELSE SubSeq(s, 1, i)

\* index (1-based) of the first c in s at or after position i, 0 when none
RECURSIVE FindFrom(_, _, _)
FindFrom(s, c, i) ==
  IF i > Len(s) THEN 0
  ELSE IF s[i] = c THEN i
  ELSE FindFrom(s, c, i + 1)

\* str.split('/'): the sequence of segments, each a character sequence
RECURSIVE Split(_)
SplitAt(s, i) ==
  IF i = 0 THEN <<s>>
  ELSE <<SubSeq(s, 1, i - 1)>> \o Split(SubSeq(s, i + 1, Len(s)))

Split(s) == SplitAt(s, FindFrom(s, "/", 1))

\* '/'.join(segments)
RECURSIVE Join(_)
Join(segs) ==
  IF Len(segs) = 0 THEN <<>>
  ELSE IF Len(segs) = 1 THEN segs[1]
  ELSE segs[1] \o <<"/">> \o Join(Tail(segs))

\* filter(None, segments): drops the empty segments
RECURSIVE FilterEmpty(_)
FilterEmpty(segs) ==
  IF Len(segs) = 0 THEN <<>>
  ELSE IF Head(segs) = <<>> THEN FilterEmpty(Tail(segs))
  ELSE <<Head(segs)>> \o FilterEmpty(Tail(segs))

-----------------------------------------------------------------------------
(* urllib.parse *)

uses_netloc == {"", "http", "https", "file", "ftp", "sftp"}

\* urllib.parse.unquote after replace('+', ' '), on the token alphabet
Unquote(t) == IF t = "b%20c" \/ t = "b+c" THEN "b c" ELSE t

\* urllib.parse.quote_plus, on the token alphabet
QuotePlus(t) == IF t = "b c" THEN "b+c" ELSE t

\* parse_qsl(query): pairs with a blank value are dropped
\* (keep_blank_values is False), names and values are unquoted
RECURSIVE parse_qsl(_)
parse_qsl(query) ==
  IF Len(query) = 0 THEN <<>>
  ELSE LET nv == Head(query)
       IN IF nv[2] = "" THEN parse_qsl(Tail(query))
          ELSE << <<Unquote(nv[1]), Unquote(nv[2])>> >> \o parse_qsl(Tail(query))

\* urlencode(query): every name and value is quoted
urlencode(query) ==
  [i \in 1..Len(query) |-> <<QuotePlus(query[i][1]), QuotePlus(query[i][2])>>]

\* the code-point order of the key alphabet, for sorted()
KeyOrder ==
  <<"1", "b c", "compress", "constant", "decoding", "encode", "encrypt", "locator",
    "region", "type", "verbose", "x", "y", "z">>

KeyRank(k) == CHOOSE i \in 1..Len(KeyOrder) : KeyOrder[i] = k

\* sorted(keys)
MinKey(keys) == CHOOSE x \in keys : \A y \in keys : KeyRank(x) <= KeyRank(y)

RECURSIVE SortedKeys(_)
SortedKeys(keys) ==
  IF keys = {} THEN <<>>
  ELSE <<MinKey(keys)>> \o SortedKeys(keys \ {MinKey(keys)})

\* the netloc of a string that starts with '//': the characters up to the
\* next '/', and the path that follows it
SplitNetlocAt(s, i) ==
  IF i = 0 THEN [netloc |-> SliceFrom(s, 2), path |-> <<>>]
  ELSE [netloc |-> SubSeq(s, 3, i - 1), path |-> SliceFrom(s, i - 1)]

SplitNetloc(s) ==
  IF Len(s) >= 2 /\ s[1] = "/" /\ s[2] = "/"
  THEN SplitNetlocAt(s, FindFrom(s, "/", 3))
  ELSE [netloc |-> <<>>, path |-> s]

HasNetloc(parts) == parts.host # <<>> \/ parts.username # NoneValue \/ parts.port # NoneValue

\* urlparse(url): the scheme is lower-cased, the other components are kept
urlparse(u) == [u EXCEPT !.scheme = LowerScheme(u.scheme)]

\* urlunparse(parts), read back as the components of the string it builds:
\* a path that lacks its leading '/' gets one when '//' + netloc is emitted,
\* and with an empty netloc a path starting with '//' is emitted as it is,
\* so that its first segment reads back as the host
urlunparse(parts) ==
  IF HasNetloc(parts)
     \/ (parts.scheme # "" /\ parts.scheme \in uses_netloc /\ SliceTo(parts.path, 2) # <<"/", "/">>)
  THEN IF parts.path # <<>> /\ parts.path[1] # "/"
       THEN [parts EXCEPT !.path = <<"/">> \o parts.path]
       ELSE parts
  ELSE IF SliceTo(parts.path, 2) = <<"/", "/">>
       THEN [parts EXCEPT !.host = SplitNetloc(parts.path).netloc,
                          !.path = SplitNetloc(parts.path).path]
       ELSE parts

\* ParseResult.hostname: lower-cased, None (the empty sequence) when empty
hostname(parts) == Lower(parts.host)

-----------------------------------------------------------------------------
(* ResourceLocator: the locator-parameter codec *)

Sentinel == <<"locator", "1">>

\* {t[0]: t[1] for t in pairs}: a later pair overrides an earlier one
\* d[k] = v
DictPut(d, k, v) == [x \in (DOMAIN d) \cup {k} |-> IF x = k THEN v ELSE d[x]]

RECURSIVE DictOf(_)
DictOf(pairs) ==
  IF Len(pairs) = 0 THEN <<>>
  ELSE DictPut(DictOf(SubSeq(pairs, 1, Len(pairs) - 1)),
               pairs[Len(pairs)][1], pairs[Len(pairs)][2])

\* {**parameters, **base_parameters}: the base wins
DictMerge_BaseWins(base_parameters, parameters) ==
  [k \in (DOMAIN base_parameters) \cup (DOMAIN parameters) |->
     IF k \in DOMAIN base_parameters THEN base_parameters[k] ELSE parameters[k]]

\* {**base_parameters, **parameters}
DictMerge(base_parameters, parameters) ==
  [k \in (DOMAIN base_parameters) \cup (DOMAIN parameters) |->
     IF k \in DOMAIN parameters THEN parameters[k] ELSE base_parameters[k]]

\* [(k, parameters[k]) for k in sorted(parameters.keys())]
ItemsOf(parameters, ks) == [i \in 1..Len(ks) |-> <<ks[i], parameters[ks[i]]>>]

SortedItems(parameters) == ItemsOf(parameters, SortedKeys(DOMAIN parameters))

\* len(query) - 1 - query[::-1].index(('locator', '1')), 1-based;
\* 0 stands for the ValueError of index()
RECURSIVE LastIndex(_, _)
LastIndex(query, pair) ==
  IF Len(query) = 0 THEN 0
  ELSE IF query[Len(query)] = pair THEN Len(query)
  ELSE LastIndex(SubSeq(query, 1, Len(query) - 1), pair)

\* urlunparse([*parts[:4], urllib.parse.urlencode(query), *parts[5:]])
WithQuery(parts, query) == urlunparse([parts EXCEPT !.query = urlencode(query)])

append_locator_parameters(u, parameters) ==
  WithQuery(urlparse(u),
            parse_qsl(urlparse(u).query) \o <<Sentinel>> \o SortedItems(parameters))

\* the part of strip_locator_parameters after locator_index is computed
StripAt(u, query, locator_index) ==
  IF locator_index = 0 THEN <<u, <<>> >>
  ELSE <<WithQuery(urlparse(u), SubSeq(query, 1, locator_index - 1)),
         DictOf(SubSeq(query, locator_index + 1, Len(query)))>>

\* the part of strip_locator_parameters after the query is parsed
StripQuery(u, query) == StripAt(u, query, LastIndex(query, Sentinel))

strip_locator_parameters(u) == StripQuery(u, parse_qsl(urlparse(u).query))

-----------------------------------------------------------------------------
(* ResourceLocator.merge_urls *)

\* urlunparse(('', netloc, path, '', '', '')) as urljoin returns it
UnparsePath(netloc, path) ==
  IF netloc # <<>>
  THEN <<"/", "/">> \o netloc \o
       (IF path # <<>> /\ path[1] # "/" THEN <<"/">> \o path ELSE path)
  ELSE path

\* the loop of urljoin over the segments: '..' pops, '.' is skipped
RECURSIVE ResolveSegments(_, _)
ResolveSegments(segments, resolved_path) ==
  IF Len(segments) = 0 THEN resolved_path
  ELSE IF Head(segments) = <<".", ".">>
  THEN ResolveSegments(Tail(segments),
                       IF Len(resolved_path) = 0 THEN resolved_path
                       ELSE SubSeq(resolved_path, 1, Len(resolved_path) - 1))
  ELSE IF Head(segments) = <<".">>
  THEN ResolveSegments(Tail(segments), resolved_path)
  ELSE ResolveSegments(Tail(segments), Append(resolved_path, Head(segments)))

\* base_parts of urljoin: a last item that is no directory is deleted
BaseParts(bsplit) ==
  IF bsplit[Len(bsplit)] # <<>> THEN SubSeq(bsplit, 1, Len(bsplit) - 1) ELSE bsplit

\* segments[1:-1] = filter(None, segments[1:-1])
FilterInner(segments) ==
  IF Len(segments) < 2 THEN segments
  ELSE <<segments[1]>> \o FilterEmpty(SubSeq(segments, 2, Len(segments) - 1))
       \o <<segments[Len(segments)]>>

\* segments of urljoin: an absolute path ignores the base path
Segments(bpath, path) ==
  IF path[1] = "/" THEN Split(path)
  ELSE FilterInner(BaseParts(Split(bpath)) \o Split(path))

\* resolved_path after the loop: a trailing '.' or '..' leaves a directory
ResolvedPath(segments) ==
  IF segments[Len(segments)] \in {<<".">>, <<".", ".">>}
  THEN Append(ResolveSegments(segments, <<>>), <<>>)
  ELSE ResolveSegments(segments, <<>>)

\* '/'.join(resolved_path) or '/'
JoinedOrRoot(joined) == IF joined = <<>> THEN <<"/">> ELSE joined

\* urljoin once base and url are parsed
JoinParsed(b, r) ==
  IF r.netloc # <<>> THEN UnparsePath(r.netloc, r.path)
  ELSE IF r.path = <<>> THEN UnparsePath(b.netloc, b.path)
  ELSE UnparsePath(b.netloc, JoinedOrRoot(Join(ResolvedPath(Segments(b.path, r.path)))))

\* urllib.parse.urljoin(base, url) on two path strings
urljoin(base, u) ==
  IF base = <<>> THEN u
  ELSE IF u = <<>> THEN base
  ELSE JoinParsed(SplitNetloc(base), SplitNetloc(u))

\* hostname, username and password of merge_urls: the value of url unless
\* it is None
MergedHostname(parts, base_parts) ==
  IF hostname(parts) # <<>> THEN hostname(parts) ELSE hostname(base_parts)

MergedUsername(parts, base_parts) ==
  IF parts.username # NoneValue THEN parts.username ELSE base_parts.username

MergedPassword(parts, base_parts) ==
  IF parts.password # NoneValue THEN parts.password ELSE base_parts.password

\* merged_parts of merge_urls; the netloc string is built from hostname,
\* username and password only
MergedParts(base_parts, parts) ==
  [scheme   |-> IF parts.scheme # "" THEN parts.scheme ELSE base_parts.scheme,
   username |-> MergedUsername(parts, base_parts),
   password |-> IF MergedUsername(parts, base_parts) # NoneValue
                THEN MergedPassword(parts, base_parts) ELSE NoneValue,
   host     |-> MergedHostname(parts, base_parts),
   port     |-> NoneValue,
   path     |-> urljoin(base_parts.path,
                        IF base_parts.path # <<>> THEN SliceFrom(parts.path, 1)
                        ELSE parts.path),
   params   |-> IF parts.params # "" THEN parts.params ELSE base_parts.params,
   query    |-> urlencode(parse_qsl(base_parts.query) \o parse_qsl(parts.query)),
   fragment |-> IF parts.fragment # "" THEN parts.fragment ELSE base_parts.fragment]

\* merge_urls once both URLs are stripped of their locator parameters
MergeStripped(sb, su) ==
  append_locator_parameters(urlunparse(MergedParts(urlparse(sb[1]), urlparse(su[1]))),
                            DictMerge(sb[2], su[2]))

merge_urls(base_url, u) ==
  MergeStripped(strip_locator_parameters(base_url), strip_locator_parameters(u))

-----
(* The alias registry and ResourceLocator.dealias_url *)

\* f'alias://{alias}' of LocationRegistryError; a None alias prints as 'None'
AliasUrl(alias) ==
  [scheme |-> "alias", username |-> NoneValue, password |-> NoneValue,
   host |-> IF alias = <<>> THEN <<"N", "o", "n", "e">> ELSE alias,
   port |-> NoneValue, path |-> <<>>, params |-> "", query |-> <<>>, fragment |-> ""]

LocationRegistryError(alias) ==
  [kind |-> "raise", type |-> "LocationRegistryError",
   url |-> AliasUrl(alias), error |-> "KeyError", chain |-> <<alias>>]

LocationRegistryCircularDependencyError(c) ==
  [kind |-> "raise", type |-> "LocationRegistryCircularDependencyError",
   url |-> AliasUrl(c[Len(c)]), error |-> "ValueError", chain |-> c]

Returned(u) == [kind |-> "return", url |-> u]

\* looks at the referring alias only
InChain_LastOnly(alias, c) == Len(c) > 0 /\ c[Len(c)] = alias

InChain(alias, c) == \E i \in 1..Len(c) : c[i] = alias

\* registry.get(alias, ''): no error for a missing alias
get_registered_url_Default(reg, alias) ==
  IF alias \notin DOMAIN reg THEN Returned(NoUrl) ELSE Returned(reg[alias])

\* get_registered_url(alias) against a registry
get_registered_url(reg, alias) ==
  IF alias \notin DOMAIN reg THEN LocationRegistryError(alias)
  ELSE Returned(reg[alias])

\* urlunparse(['', merge_netloc, *parts[2:]]): the alias URL without its
\* scheme and host, keeping its user information
url_to_merge(parts) ==
  urlunparse([parts EXCEPT !.scheme = "", !.host = <<>>, !.port = NoneValue])

\* returns the merged URL instead of resolving it further
FrameRecurse_NoRecursion(parts, c, alias, registered) ==
  IF registered.kind = "raise" THEN registered
  ELSE Returned(merge_urls(registered.url, url_to_merge(parts)))

\* dealias_url after the registry lookup: the merge and the recursive call
FrameRecurse(parts, c, alias, registered) ==
  IF registered.kind = "raise" THEN registered
  ELSE [kind |-> "recurse",
        url |-> merge_urls(registered.url, url_to_merge(parts)),
        chain |-> Append(c, alias),
        alias |-> alias,
        base_url |-> registered.url,
        referring |-> url_to_merge(parts)]

\* raises with chain=_chain, without the repeated alias
FrameAlias_ChainWithoutRepeat(reg, parts, c, alias) ==
  IF InChain(alias, c)
  THEN LocationRegistryCircularDependencyError(c)
  ELSE FrameRecurse(parts, c, alias, get_registered_url(reg, alias))

\* dealias_url once the alias is read from the hostname
FrameAlias(reg, parts, c, alias) ==
  IF InChain(alias, c)
  THEN LocationRegistryCircularDependencyError(Append(c, alias))
  ELSE FrameRecurse(parts, c, alias, get_registered_url(reg, alias))

\* one invocation of dealias_url(url, _chain) up to its return, raise or
\* recursive call
dealias_frame(reg, u, c) ==
  IF urlparse(u).scheme # "alias" THEN Returned(u)
  ELSE FrameAlias(reg, urlparse(u), c, hostname(urlparse(u)))

\* dealias_url(url, _chain) as a function: the outcome of the whole recursion
RECURSIVE dealias_url(_, _, _)
DealiasNext(reg, f) ==
  IF f.kind = "recurse" THEN dealias_url(reg, f.url, f.chain) ELSE f

dealias_url(reg, u, c) == DealiasNext(reg, dealias_frame(reg, u, c))

-----------------------------------------------------------------------------
(* Input alphabets *)

SeqsUpTo(S, n) == UNION {[1..k -> S] : k \in 0..n}

PathChars == {"/", ".", "a"}

Paths(n) == SeqsUpTo(PathChars, n)

\* the paths of a base URL: none, the root, a file, a directory, a nested
\* directory, a relative file and a relative directory
BasePaths ==
  {<<>>, <<"/">>, <<"/", "a">>, <<"/", "a", "/">>, <<"/", "a", "/", "a", "/">>,
   <<"a">>, <<"a", "/">>}

\* raw name=value pairs of a query string: plain, blank-valued,
\* percent-encoded, the sentinel, and a locator parameter
RawPairs ==
  {<<"x", "1">>, <<"y", "">>, <<"z", "b%20c">>, <<"locator", "1">>,
   <<"encrypt", "x">>, <<"encrypt", "y">>}

Queries(n) == SeqsUpTo(RawPairs, n)

ParameterKeys == {"encrypt", "type", "locator"}

ParameterValues == {"x", "1", ""}

ParameterMaps == UNION {[K -> ParameterValues] : K \in SUBSET ParameterKeys}

\* what urlparse can return for a string: after a netloc the path is empty
\* or starts with '/', without one it does not start with '//'
IsParsed(u) ==
  /\ HasNetloc(u) => (u.path = <<>> \/ u.path[1] = "/")
  /\ ~HasNetloc(u) => SliceTo(u.path, 2) # <<"/", "/">>
  /\ u.password # NoneValue => u.username # NoneValue

CodecUrls(n) ==
  {[Url(s, <<"h">>, <<"/", "a">>, q) EXCEPT !.fragment = f] :
     s \in {"https", "HTTPS"}, q \in Queries(n), f \in {"", "f"}}

\* merge_urls inputs: three families, each varying the components that
\* interact (paths, network locations and schemes, queries)
PathInputs(n) ==
  {<<Url(b[1], b[2], bp, <<>>), Url("", <<>>, p, <<>>)>> :
     b \in {<<"https", <<"h">>>>, <<"", <<>>>>}, bp \in BasePaths, p \in Paths(n)}
  \cup
  {<<Url("https", <<"h">>, bp, <<>>), Url("https", <<"a">>, p, <<>>)>> :
     bp \in BasePaths, p \in Paths(n)}
  \cup
  {<<Url("", <<>>, bp, <<>>), [Url("", <<>>, p, <<>>) EXCEPT !.port = "80"]>> :
     bp \in BasePaths, p \in Paths(n)}

Netlocs(user, pass, hosts) ==
  {n \in [username : {NoneValue, "", user}, password : {NoneValue, "", pass},
          host : hosts, port : {NoneValue, "80"}] :
     n.password # NoneValue => n.username # NoneValue}

WithNetloc(u, n) ==
  [u EXCEPT !.username = n.username, !.password = n.password,
            !.host = n.host, !.port = n.port]

NetlocInputs ==
  {<<WithNetloc(Url(bs, <<>>, <<"/", "a", "/">>, <<>>), bn),
     WithNetloc(Url(us, <<>>, <<"/", "a">>, <<>>), un)>> :
     bs \in {"https", ""}, us \in {"", "file", "HTTPS"},
     bn \in Netlocs("bu", "bp", {<<>>, <<"h">>, <<"B">>}),
     un \in Netlocs("u", "p", {<<>>, <<"a">>, <<"A">>})}

\* the queries of a base URL: none, plain, blank-valued, percent-encoded,
\* and three with locator parameters
BaseQueries ==
  {<<>>,
   << <<"x", "1">> >>,
   << <<"y", "">> >>,
   << <<"z", "b%20c">>, <<"x", "1">> >>,
   << <<"locator", "1">>, <<"encrypt", "x">> >>,
   << <<"x", "1">>, <<"locator", "1">>, <<"encrypt", "x">>, <<"type", "x">> >>,
   << <<"locator", "1">>, <<"encrypt", "y">>, <<"encrypt", "x">> >>}

QueryInputs(n) ==
  {<<Url("https", <<"h">>, <<"/", "a", "/">>, bq), Url("", <<>>, <<"/", "a">>, q)>> :
     bq \in BaseQueries, q \in Queries(n)}

MergeInputs(n, m) ==
  {i \in PathInputs(n) \cup NetlocInputs \cup QueryInputs(m) :
     IsParsed(i[1]) /\ IsParsed(i[2])}

AliasNames == <<"a", "b", "c", "d", "e">>

Aliases == {<<AliasNames[i]>> : i \in 1..NumAliases}

\* https://h:80/a/?x=1&locator=1&encrypt=x&type=x
Backend ==
  [Url("https", <<"h">>, <<"/", "a", "/">>,
       << <<"x", "1">>, <<"locator", "1">>, <<"encrypt", "x">>, <<"type", "x">> >>)
   EXCEPT !.port = "80"]

\* /a/a
FilePath == Url("", <<>>, <<"/", "a", "/", "a">>, <<>>)

\* alias://<name>/<name>?<name>=1&locator=1&encrypt=<name>
AliasTo(i) ==
  Url("alias", <<AliasNames[i]>>, <<"/", AliasNames[i]>>,
      << <<AliasNames[i], "1">>, <<"locator", "1">>, <<"encrypt", AliasNames[i]>> >>)

RegisteredUrls == {Backend, FilePath} \cup {AliasTo(i) : i \in 1..NumAliases}

\* the URLs handed to dealias_url: a bare alias of every name, an alias with
\* path, query and locator parameters, with user information, with an
\* upper-case scheme and host, without a host, with a path of two slashes,
\* and a URL that is no alias
CallUrls ==
  {Url("alias", a, <<>>, <<>>) : a \in Aliases}
  \cup
  {Url("alias", <<"a">>, <<"/", "e">>,
       << <<"z", "1">>, <<"y", "">>, <<"locator", "1">>, <<"encrypt", "z">> >>),
   [Url("alias", <<"b">>, <<"/", "e">>, <<>>) EXCEPT !.username = "u", !.password = "p"],
   Url("ALIAS", <<"A">>, <<"/", ".", ".", "/", "e">>, <<>>),
   Url("alias", <<>>, <<"/", "e">>, <<>>),
   Url("alias", <<"b">>, <<"/", "/", "e", "/", "e">>, <<>>),
   Url("https", <<"h">>, <<"/", "e">>, << <<"locator", "1">>, <<"encrypt", "z">> >>)}

-----------------------------------------------------------------------------
(* The state machine *)

\* no locator was made and no method of one was called
NoBackend ==
  /\ locator = NoneValue
  /\ resource = NoneValue
  /\ environment = NoneValue
  /\ effects = <<>>

\* Encryptor.registry = {}, Decryptor.registry = {}, the stacks of Cryptor
\* empty and no call of the encryption classes made
NoCrypt ==
  /\ enc_registry = <<>>
  /\ dec_registry = <<>>
  /\ encryptor_registries = <<>>
  /\ decryptor_registries = <<>>
  /\ scopes = <<>>
  /\ optimize = FALSE
  /\ arg_data = <<>>
  /\ arg_metadata = <<>>
  /\ arg_options = NoneValue
  /\ arg_self = NoneValue
  /\ sealed = NoneValue

NoCall ==
  /\ pc = "idle"
  /\ op = "none"
  /\ arg_url = NoUrl
  /\ arg_base_url = NoUrl
  /\ arg_parameters = <<>>
  /\ arg_alias = <<>>
  /\ url = NoUrl
  /\ chain = <<>>
  /\ hops = 0
  /\ trail = <<>>
  /\ ret = NoRet

\* ResourceLocator.registry = {} and no call made
Init ==
  /\ NoBackend
  /\ registry = <<>>
  /\ NoCall
  /\ NoCrypt

\* register_url(alias, url): cls.registry[alias] = url
register_url(alias, u) ==
  /\ pc = "idle"
  /\ registry' = [a \in (DOMAIN registry) \cup {alias} |->
                    IF a = alias THEN u ELSE registry[a]]
  /\ UNCHANGED <<pc, op, arg_url, arg_base_url, arg_parameters, arg_alias,
                 url, chain, hops, trail, ret>>
  /\ UNCHANGED cryptVars
  /\ UNCHANGED backendVars

\* a call of get_registered_url(alias)
GetRegisteredUrl(alias) ==
  /\ pc = "idle"
  /\ op' = "get_registered_url"
  /\ arg_alias' = alias
  /\ \E r \in {get_registered_url(registry, alias)} :
       /\ ret' = r
       /\ pc' = IF r.kind = "raise" THEN "raised" ELSE "returned"
  /\ UNCHANGED <<registry, arg_url, arg_base_url, arg_parameters,
                 url, chain, hops, trail>>
  /\ UNCHANGED cryptVars
  /\ UNCHANGED backendVars

\* a call of dealias_url(url) enters its first invocation with _chain = []
DealiasCall(u) ==
  /\ pc = "idle"
  /\ op' = "dealias_url"
  /\ arg_url' = u
  /\ url' = u
  /\ chain' = <<>>
  /\ hops' = 1
  /\ pc' = "dealias"
  /\ UNCHANGED <<registry, arg_base_url, arg_parameters, arg_alias, trail, ret>>
  /\ UNCHANGED cryptVars
  /\ UNCHANGED backendVars

\* the invocation finds a scheme that is not 'alias' and returns its url
DealiasReturn ==
  /\ pc = "dealias"
  /\ \E f \in {dealias_frame(registry, url, chain)} :
       /\ f.kind = "return"
       /\ ret' = f
  /\ pc' = "returned"
  /\ UNCHANGED <<registry, op, arg_url, arg_base_url, arg_parameters, arg_alias,
                 url, chain, hops, trail>>
  /\ UNCHANGED cryptVars
  /\ UNCHANGED backendVars

\* the invocation raises: the alias is on the chain, or is not registered
DealiasRaise ==
  /\ pc = "dealias"
  /\ \E f \in {dealias_frame(registry, url, chain)} :
       /\ f.kind = "raise"
       /\ ret' = f
  /\ pc' = "raised"
  /\ UNCHANGED <<registry, op, arg_url, arg_base_url, arg_parameters, arg_alias,
                 url, chain, hops, trail>>
  /\ UNCHANGED cryptVars
  /\ UNCHANGED backendVars

\* the invocation merges the registered URL and calls dealias_url on the
\* merged URL with the alias appended to the chain
DealiasRecurse ==
  /\ pc = "dealias"
  /\ \E f \in {dealias_frame(registry, url, chain)} :
       /\ f.kind = "recurse"
       /\ url' = f.url
       /\ chain' = f.chain
       /\ trail' = Append(trail, [alias |-> f.alias, base_url |-> f.base_url,
                                  referring |-> f.referring])
  /\ hops' = hops + 1
  /\ UNCHANGED <<registry, pc, op, arg_url, arg_base_url, arg_parameters,
                 arg_alias, ret>>
  /\ UNCHANGED cryptVars
  /\ UNCHANGED backendVars

\* the caller has its result; the next call starts from a clean slate
Done ==
  /\ pc \in {"returned", "raised"}
  /\ pc' = "idle"
  /\ op' = "none"
  /\ arg_url' = NoUrl
  /\ arg_base_url' = NoUrl
  /\ arg_parameters' = <<>>
  /\ arg_alias' = <<>>
  /\ url' = NoUrl
  /\ chain' = <<>>
  /\ hops' = 0
  /\ trail' = <<>>
  /\ ret' = NoRet
  /\ UNCHANGED registry
  /\ UNCHANGED cryptVars
  /\ UNCHANGED backendVars

Next ==
  \/ \E alias \in Aliases, u \in RegisteredUrls : register_url(alias, u)
  \/ \E alias \in Aliases : GetRegisteredUrl(alias)
  \/ \E u \in CallUrls : DealiasCall(u)
  \/ DealiasReturn
  \/ DealiasRaise
  \/ DealiasRecurse
  \/ Done

Spec == Init /\ [][Next]_vars

-----------------------------------------------------------------------------
(* The pure functions of the codec and the merge, applied to drawn inputs *)

InitCodec ==
  /\ NoBackend
  /\ registry = <<>>
  /\ pc = "idle"
  /\ op = "none"
  /\ arg_url \in CodecUrls(MaxQueryLen)
  /\ arg_parameters \in ParameterMaps
  /\ arg_base_url = NoUrl
  /\ arg_alias = <<>>
  /\ url = NoUrl
  /\ chain = <<>>
  /\ hops = 0
  /\ trail = <<>>
  /\ ret = NoRet
  /\ NoCrypt

AppendLocatorParameters ==
  /\ pc = "idle"
  /\ op' = "append_locator_parameters"
  /\ ret' = Returned(append_locator_parameters(arg_url, arg_parameters))
  /\ pc' = "returned"
  /\ UNCHANGED <<registry, arg_url, arg_base_url, arg_parameters, arg_alias,
                 url, chain, hops, trail>>
  /\ UNCHANGED cryptVars
  /\ UNCHANGED backendVars

StripLocatorParameters ==
  /\ pc = "idle"
  /\ op' = "strip_locator_parameters"
  /\ \E r \in {strip_locator_parameters(arg_url)} :
       ret' = [kind |-> "return", url |-> r[1], parameters |-> r[2]]
  /\ pc' = "returned"
  /\ UNCHANGED <<registry, arg_url, arg_base_url, arg_parameters, arg_alias,
                 url, chain, hops, trail>>
  /\ UNCHANGED cryptVars
  /\ UNCHANGED backendVars

NextCodec == AppendLocatorParameters \/ StripLocatorParameters

SpecCodec == InitCodec /\ [][NextCodec]_vars

InitMerge ==
  /\ NoBackend
  /\ registry = <<>>
  /\ pc = "idle"
  /\ op = "none"
  /\ \E i \in MergeInputs(MaxPathLen, MaxQueryLen) : arg_base_url = i[1] /\ arg_url = i[2]
  /\ arg_parameters = <<>>
  /\ arg_alias = <<>>
  /\ url = NoUrl
  /\ chain = <<>>
  /\ hops = 0
  /\ trail = <<>>
  /\ ret = NoRet
  /\ NoCrypt

MergeUrls ==
  /\ pc = "idle"
  /\ op' = "merge_urls"
  /\ ret' = Returned(merge_urls(arg_base_url, arg_url))
  /\ pc' = "returned"
  /\ UNCHANGED <<registry, arg_url, arg_base_url, arg_parameters, arg_alias,
                 url, chain, hops, trail>>
  /\ UNCHANGED cryptVars
  /\ UNCHANGED backendVars

NextMerge == MergeUrls

SpecMerge == InitMerge /\ [][NextMerge]_vars

-----------------------------------------------------------------------------
(* Bytes.  A bytes object is a sequence of numbers 0..255.  AES is stood   *)
(* for by a keyed permutation of the 16-byte blocks and RSA-OAEP by a      *)
(* randomised wrapping that only the key pair that made it opens; padding, *)
(* chaining, framing and UTF-8 are computed byte by byte.                  *)

\* symmetric_padding.PKCS7(128): the block length in bytes
BlockSize == 16

\* os.urandom(32)
KeySize == 32

\* os.urandom(16)
IvSize == 16

\* len(d).to_bytes(length=8, byteorder='big')
LengthSize == 8

\* an optional bytes argument: None or the bytes given
NoBytes == [given |-> FALSE, bytes |-> <<>>]

Given(b) == [given |-> TRUE, bytes |-> b]

ReturnedBytes(b) == [kind |-> "return", data |-> b]

\* the ValueError the cryptography package raises
ValueError == [kind |-> "raise", type |-> "ValueError"]

\* the sequence f with its elements computed
Computed(f) == f \o <<>>

RECURSIVE XorBits(_, _, _)
XorBits(a, b, n) ==
  IF n = 0 THEN 0
  ELSE ((a + b) % 2) + 2 * XorBits(a \div 2, b \div 2, n - 1)

XorBytes(x, y) == Computed([i \in 1..Len(x) |-> XorBits(x[i], y[i], 8)])

\* padder.update(data) + padder.finalize(): 1..16 bytes, each the count
PadLength(data) == BlockSize - (Len(data) % BlockSize)

\* no padding bytes for data that is a whole number of blocks
pad_NoneWhenAligned(data) ==
  IF Len(data) % BlockSize = 0 /\ Len(data) > 0 THEN data
  ELSE data \o [i \in 1..PadLength(data) |-> PadLength(data)]

pad(data) == data \o [i \in 1..PadLength(data) |-> PadLength(data)]

\* unpadder.update(data) + unpadder.finalize(): the last byte is the count
\* and the last count bytes must all hold it
Unpadded(data, count) ==
  IF count < 1 \/ count > BlockSize
     \/ \E i \in (Len(data) - count + 1)..Len(data) : data[i] # count
  THEN ValueError
  ELSE ReturnedBytes(SubSeq(data, 1, Len(data) - count))

unpad(data) ==
  IF Len(data) = 0 \/ Len(data) % BlockSize # 0 THEN ValueError
  ELSE Unpadded(data, data[Len(data)])

\* the round key of position i
KeyByte(key, i) ==
  (key[((i - 1) % Len(key)) + 1] + key[((i + BlockSize - 1) % Len(key)) + 1]) % 256

\* the block b rotated by one position to the left, and back
RotateLeft(b) == Computed([i \in 1..Len(b) |-> b[(i % Len(b)) + 1]])

RotateRight(b) == Computed([i \in 1..Len(b) |-> b[((i + Len(b) - 2) % Len(b)) + 1]])

\* algorithms.AES(key) on one block: a permutation of the blocks for
\* every key, and its inverse
AddKey(key, block) ==
  Computed([i \in 1..BlockSize |-> (block[i] + KeyByte(key, i)) % 256])

SubtractKey(key, block) ==
  Computed([i \in 1..BlockSize |-> (block[i] + 256 - KeyByte(key, i)) % 256])

EncryptBlock(key, block) == AddKey(key, RotateLeft(block))

DecryptBlock(key, block) == RotateRight(SubtractKey(key, block))

\* modes.CBC(initialization_vector): every plaintext block is xor-ed with
\* the previous ciphertext block (the first one with the IV) and encrypted
RECURSIVE CbcEncrypt(_, _, _)
CbcChain(key, block, rest) == block \o CbcEncrypt(key, block, rest)

CbcEncrypt(key, previous, data) ==
  IF Len(data) = 0 THEN <<>>
  ELSE CbcChain(key,
                EncryptBlock(key, XorBytes(SubSeq(data, 1, BlockSize), previous)),
                SubSeq(data, BlockSize + 1, Len(data)))

RECURSIVE CbcDecrypt(_, _, _)
CbcDecrypt(key, previous, data) ==
  IF Len(data) = 0 THEN <<>>
  ELSE XorBytes(DecryptBlock(key, SubSeq(data, 1, BlockSize)), previous)
       \o CbcDecrypt(key, SubSeq(data, 1, BlockSize),
                     SubSeq(data, BlockSize + 1, Len(data)))

\* Cipher(algorithms.AES(key), modes.CBC(initialization_vector)) raises
\* ValueError for a key that is not 16, 24 or 32 bytes long and for an IV
\* that is not one block long
key_cipher(key, initialization_vector) ==
  IF Len(key) \notin {16, 24, 32} \/ Len(initialization_vector) # BlockSize
  THEN ValueError
  ELSE [kind |-> "return", key |-> key, initialization_vector |-> initialization_vector]

\* Encryptor.encipher
encipher(data, key, initialization_vector) ==
  IF key_cipher(key, initialization_vector).kind = "raise" THEN ValueError
  ELSE ReturnedBytes(CbcEncrypt(key, initialization_vector, pad(data)))

\* Encryptor.decipher: decryptor.finalize() raises ValueError for data that
\* is no whole number of blocks, unpad for padding that is not valid
decipher(data, key, initialization_vector) ==
  IF key_cipher(key, initialization_vector).kind = "raise" THEN ValueError
  ELSE IF Len(data) % BlockSize # 0 THEN ValueError
  ELSE unpad(CbcDecrypt(key, initialization_vector, data))

\* public_key.encrypt(key_bytes, padding=OAEP): the bytes name the key
\* pair and the random seed of the padding and hold the masked key
encrypted_key(key_pair, key_bytes, seed) ==
  <<key_pair, seed>> \o [i \in 1..Len(key_bytes) |-> (key_bytes[i] + seed) % 256]

\* private_key.decrypt(encrypted_key_bytes, padding=OAEP): ValueError for
\* bytes that were not made with the public key of the pair
decrypted_key(key_pair, encrypted_key_bytes) ==
  IF Len(encrypted_key_bytes) < 2 \/ encrypted_key_bytes[1] # key_pair THEN ValueError
  ELSE ReturnedBytes(Computed([i \in 1..(Len(encrypted_key_bytes) - 2) |->
                               (encrypted_key_bytes[i + 2] + 256 - encrypted_key_bytes[2]) % 256]))

\* Encryptor.Metadata(key, initialization_vector, name)
Metadata(key, initialization_vector, name) ==
  [key |-> key, initialization_vector |-> initialization_vector, name |-> name]

\* the second half of Encryptor.encrypt
EncryptSealed(self, enciphered, key, initialization_vector, seed) ==
  IF enciphered.kind = "raise" THEN enciphered
  ELSE [kind |-> "return", data |-> enciphered.data,
        metadata |-> Metadata(encrypted_key(self.public_key, key, seed),
                              initialization_vector, self.name)]

EncryptWith(self, data, key, initialization_vector, seed) ==
  EncryptSealed(self, encipher(data, key, initialization_vector),
                key, initialization_vector, seed)

\* Encryptor.encrypt: urandom holds what os.urandom and the OAEP padding
\* draw during the call
encrypt(self, data, key, initialization_vector, urandom) ==
  EncryptWith(self, data,
              IF key.given THEN key.bytes ELSE urandom.key,
              IF initialization_vector.given THEN initialization_vector.bytes
              ELSE urandom.initialization_vector,
              urandom.seed)

DecryptWithKey(data, key, initialization_vector) ==
  IF key.kind = "raise" THEN key
  ELSE decipher(data, key.data, initialization_vector)

\* Decryptor.decrypt
decrypt(self, data, metadata) ==
  DecryptWithKey(data, decrypted_key(self.private_key, metadata.key),
                 metadata.initialization_vector)

-----------------------------------------------------------------------------
(* The envelope: four parts, each behind its length *)

\* a length no buffer of the model reaches: int.from_bytes is capped at it
Huge == 1048576

Min(a, b) == IF a <= b THEN a ELSE b

\* n.to_bytes(length=length, byteorder='big')
RECURSIVE ToBytes(_, _)
ToBytes(n, length) ==
  IF length = 0 THEN <<>>
  ELSE ToBytes(n \div 256, length - 1) \o <<n % 256>>

\* int.from_bytes(b, byteorder='big'), from the value of the bytes read
RECURSIVE FromBytes(_, _)
FromBytes(b, value) ==
  IF Len(b) = 0 THEN value
  ELSE FromBytes(Tail(b), Min(value * 256 + Head(b), Huge))

\* data[i:j]
Slice(data, i, j) == SubSeq(data, Min(i, Len(data)) + 1, Min(j, Len(data)))

\* str.encode(encoding='utf-8') of one character and of a name; a name is
\* the sequence of its code points (Unicode scalar values)
Utf8EncodeChar(c) ==
  IF c < 128 THEN <<c>>
  ELSE IF c < 2048 THEN <<192 + (c \div 64), 128 + (c % 64)>>
  ELSE IF c < 65536
  THEN <<224 + (c \div 4096), 128 + ((c \div 64) % 64), 128 + (c % 64)>>
  ELSE <<240 + (c \div 262144), 128 + ((c \div 4096) % 64),
         128 + ((c \div 64) % 64), 128 + (c % 64)>>

RECURSIVE Utf8Encode(_)
Utf8Encode(name) ==
  IF Len(name) = 0 THEN <<>>
  ELSE Utf8EncodeChar(Head(name)) \o Utf8Encode(Tail(name))

UnicodeDecodeError == [kind |-> "raise", type |-> "UnicodeDecodeError"]

Continuation(b, i) == i <= Len(b) /\ b[i] >= 128 /\ b[i] <= 191

CodePoint2(b) == (b[1] - 192) * 64 + (b[2] - 128)

CodePoint3(b) == (b[1] - 224) * 4096 + (b[2] - 128) * 64 + (b[3] - 128)

CodePoint4(b) ==
  (b[1] - 240) * 262144 + (b[2] - 128) * 4096 + (b[3] - 128) * 64 + (b[4] - 128)

\* a byte that starts a character: every byte but a continuation byte
Starts(b) == {i \in 1..Len(b) : ~Continuation(b, i)}

\* the bytes from the start i up to the next start
NextStart(b, i) ==
  CHOOSE j \in (i + 1)..(Len(b) + 1) :
    /\ j = Len(b) + 1 \/ ~Continuation(b, j)
    /\ \A k \in (i + 1)..(j - 1) : Continuation(b, k)

CharBytes(b, i) == SubSeq(b, i, NextStart(b, i) - 1)

\* the code point of the bytes c of one character, -1 when they are no
\* UTF-8: overlong forms, surrogates and missing or excess continuation
\* bytes
CodePoint(c) ==
  IF c[1] < 128 THEN IF Len(c) = 1 THEN c[1] ELSE -1
  ELSE IF c[1] >= 194 /\ c[1] <= 223
  THEN IF Len(c) = 2 THEN CodePoint2(c) ELSE -1
  ELSE IF c[1] >= 224 /\ c[1] <= 239
  THEN IF Len(c) = 3 /\ CodePoint3(c) >= 2048
            /\ (CodePoint3(c) < 55296 \/ CodePoint3(c) > 57343)
       THEN CodePoint3(c) ELSE -1
  ELSE IF c[1] >= 240 /\ c[1] <= 244
  THEN IF Len(c) = 4 /\ CodePoint4(c) >= 65536 /\ CodePoint4(c) <= 1114111
       THEN CodePoint4(c) ELSE -1
  ELSE -1

\* the k-th start of b, by the number of starts up to each byte
Start(b, k, rank) == CHOOSE i \in 1..Len(b) : ~Continuation(b, i) /\ rank[i] = k

Rank(b) == Computed([i \in 1..Len(b) |-> Cardinality({j \in Starts(b) : j <= i})])

\* bytes.decode(encoding='utf-8'): UnicodeDecodeError unless the bytes
\* are the encodings of characters one after the other
Utf8Decode(b) ==
  IF Len(b) > 0 /\ 1 \notin Starts(b) THEN UnicodeDecodeError
  ELSE IF \E i \in Starts(b) : CodePoint(CharBytes(b, i)) = -1 THEN UnicodeDecodeError
  ELSE LET rank == Rank(b)
       IN [kind |-> "return",
           name |-> Computed([k \in 1..Cardinality(Starts(b)) |->
                               CodePoint(CharBytes(b, Start(b, k, rank)))])]

\* the length is written with the low byte first
Framed_LittleEndian(d) ==
  [i \in 1..LengthSize |-> ToBytes(Len(d), LengthSize)[LengthSize + 1 - i]] \o d

\* the part d behind its length
Framed(d) == ToBytes(Len(d), LengthSize) \o d

\* Encryptor.append_metadata
append_metadata(data, metadata) ==
  Framed(metadata.key) \o Framed(metadata.initialization_vector)
  \o Framed(Utf8Encode(metadata.name)) \o Framed(data)

EncryptionMetadataError == [kind |-> "raise", type |-> "EncryptionMetadataError"]

EncryptionRegistryError == [kind |-> "raise", type |-> "EncryptionRegistryError"]

\* one round of the loop of strip_metadata; asserts stands for the assert
\* statements being compiled in
RECURSIVE StripParts(_, _, _, _, _)
StripPart(data, byte_index, part_length, parts, remaining_parts, asserts) ==
  IF asserts /\ Len(data) < byte_index + part_length THEN EncryptionMetadataError
  ELSE IF remaining_parts = 0
  THEN IF asserts /\ Len(data) # byte_index + part_length THEN EncryptionMetadataError
       ELSE [kind |-> "return",
             parts |-> Append(parts, Slice(data, byte_index, byte_index + part_length))]
  ELSE StripParts(data, byte_index + part_length,
                  Append(parts, Slice(data, byte_index, byte_index + part_length)),
                  remaining_parts - 1, asserts)

StripParts(data, byte_index, parts, remaining_parts, asserts) ==
  IF asserts /\ Len(data) < byte_index + LengthSize THEN EncryptionMetadataError
  ELSE StripPart(data, byte_index + LengthSize,
                 FromBytes(Slice(data, byte_index, byte_index + LengthSize), 0),
                 parts, remaining_parts, asserts)

\* the key and the initialization vector change places
StripNamed_KeyIvSwapped(parts, name) ==
  IF name.kind = "raise" THEN EncryptionMetadataError
  ELSE [kind |-> "return", data |-> parts[4],
        metadata |-> Metadata(parts[2], parts[1], name.name)]

StripNamed(parts, name) ==
  IF name.kind = "raise" THEN EncryptionMetadataError
  ELSE [kind |-> "return", data |-> parts[4],
        metadata |-> Metadata(parts[1], parts[2], name.name)]

StripDecoded(stripped) ==
  IF stripped.kind = "raise" THEN stripped
  ELSE StripNamed(stripped.parts, Utf8Decode(stripped.parts[3]))

\* Decryptor.strip_metadata
strip_metadata(data, asserts) == StripDecoded(StripParts(data, 0, <<>>, 3, asserts))

-----------------------------------------------------------------------------
(* The registries of Encryptor and Decryptor, and the stacks of Cryptor *)

\* Encryptor(public_key, name) / Decryptor(private_key, name): a key is
\* known by the number of its key pair
Encryptor(public_key, name) == [name |-> name, public_key |-> public_key]

Decryptor(private_key, name) == [name |-> name, private_key |-> private_key]

\* Decryptor.get_encryptor: the public key of the private key, same name
get_encryptor(decryptor) == Encryptor(decryptor.private_key, decryptor.name)

\* cls.registry[encryptor.name] = encryptor
register_encryptor(reg, encryptor) == DictPut(reg, encryptor.name, encryptor)

\* only the decryptor is registered
register_decryptor_Alone(reg, decryptor) == reg

\* Decryptor.register_decryptor, on Encryptor.registry
register_decryptor(reg, decryptor) == register_encryptor(reg, get_encryptor(decryptor))

\* the saved entries are added to what the registry holds
pop_registry_NoClear(reg, saved) == DictMerge(reg, saved)

\* registry.clear(); registry.update(saved)
pop_registry(reg, saved) == saved

\* a default is returned for a name that is not registered
get_registered_NoError(reg, name) ==
  IF name \notin DOMAIN reg THEN [kind |-> "return", value |-> [name |-> name, public_key |-> 1, private_key |-> 1]]
  ELSE [kind |-> "return", value |-> reg[name]]

\* Encryptor.get_registered_encryptor / Decryptor.get_registered_decryptor
get_registered(reg, name) ==
  IF name \notin DOMAIN reg THEN EncryptionRegistryError
  ELSE [kind |-> "return", value |-> reg[name]]

EncryptAppended(encrypted, append) ==
  IF encrypted.kind = "raise" THEN encrypted
  ELSE IF append
  THEN [encrypted EXCEPT !.data = append_metadata(encrypted.data, encrypted.metadata)]
  ELSE encrypted

EncryptBy(encryptor, data, key, initialization_vector, append, urandom) ==
  IF encryptor.kind = "raise" THEN encryptor
  ELSE EncryptAppended(encrypt(encryptor.value, data, key, initialization_vector, urandom),
                       append)

\* Encryptor.encrypt_with_registry
encrypt_with_registry(reg, data, name, key, initialization_vector, append, urandom) ==
  EncryptBy(get_registered(reg, name), data, key, initialization_vector, append, urandom)

DecryptBy(decryptor, data, metadata) ==
  IF decryptor.kind = "raise" THEN decryptor
  ELSE decrypt(decryptor.value, data, metadata)

DecryptStripped(reg, stripped) ==
  IF stripped.kind = "raise" THEN stripped
  ELSE DecryptBy(get_registered(reg, stripped.metadata.name), stripped.data,
                 stripped.metadata)

\* Decryptor.decrypt_with_registry; metadata is <<>> for None and <<m>>
\* for the metadata m
decrypt_with_registry(reg, data, metadata, asserts) ==
  IF metadata = <<>> THEN DecryptStripped(reg, strip_metadata(data, asserts))
  ELSE DecryptBy(get_registered(reg, metadata[1].name), data, metadata[1])

-----------------------------------------------------------------------------
(* Inputs of the encryption classes *)

\* the most blocks of data that are encrypted
MaxDataBlocks == 2

\* n bytes: first, first + step, ...
Bytes(n, first, step) == Computed([i \in 1..n |-> (first + step * (i - 1)) % 256])

\* an empty input, partial blocks, whole blocks and several blocks
DataLengths(blocks) ==
  {BlockSize * b + r : b \in 0..blocks, r \in {0, 1, BlockSize - 1}}

\* text, and bytes that look like padding
DataInputs(blocks) ==
  {Bytes(n, 97, 1) : n \in DataLengths(blocks)}
  \cup {Bytes(n, 1, 0) : n \in DataLengths(blocks)}

\* os.urandom(32)
GeneratedKeys == {Bytes(KeySize, 0, 1), Bytes(KeySize, 200, 3)}

\* os.urandom(16)
GeneratedIvs == {Bytes(IvSize, 0, 1), Bytes(IvSize, 1, 1)}

\* what one call of encrypt draws
Urandom ==
  [key : GeneratedKeys, initialization_vector : GeneratedIvs, seed : {3, 250}]

\* the key argument: None, keys of AES-256 and AES-128, and a key of 5 bytes
KeyArguments ==
  {NoBytes, Given(Bytes(KeySize, 0, 1)), Given(Bytes(16, 5, 7)), Given(Bytes(5, 1, 1))}

\* the initialization_vector argument: None, an IV, and one of 5 bytes
IvArguments == {NoBytes, Given(Bytes(IvSize, 0, 1)), Given(Bytes(5, 1, 1))}

\* the keys and IVs a reader may try: the generated ones, the AES-128 key
\* and an IV that differs from another in its first byte only
Keys == GeneratedKeys \cup {Bytes(16, 5, 7)}

Ivs == GeneratedIvs \cup {<<1>> \o Bytes(IvSize - 1, 1, 1)}

KeyPairs == {1, 2}

\* "n"
NameN == <<110>>

\* the metadata a reader may hand to decrypt: the one encrypt returned,
\* or that one with another IV or with another key wrapped for the pair
MetadataHanded(metadata, public_key) ==
  {metadata}
  \cup {[metadata EXCEPT !.initialization_vector = iv] : iv \in Ivs}
  \cup {[metadata EXCEPT !.key = encrypted_key(public_key, k, 3)] : k \in Keys}

-----------------------------------------------------------------------------
(* Encryptor.encrypt, Decryptor.decrypt and Encryptor.decipher on drawn inputs *)

InitCipher ==
  /\ NoBackend
  /\ registry = <<>>
  /\ NoCall
  /\ enc_registry = <<>>
  /\ dec_registry = <<>>
  /\ encryptor_registries = <<>>
  /\ decryptor_registries = <<>>
  /\ scopes = <<>>
  /\ optimize = FALSE
  /\ arg_data \in DataInputs(MaxDataBlocks)
  /\ arg_metadata = <<>>
  /\ arg_options \in [key : KeyArguments, initialization_vector : IvArguments]
  /\ \E p, q \in KeyPairs :
       arg_self = [encryptor |-> Encryptor(p, NameN), decryptor |-> Decryptor(q, NameN)]
  /\ sealed = NoneValue

\* encryptor.encrypt(data, key, initialization_vector)
Encrypt ==
  /\ pc = "idle"
  /\ op' = "encrypt"
  /\ \E u \in Urandom :
       \E r \in {encrypt(arg_self.encryptor, arg_data, arg_options.key,
                         arg_options.initialization_vector, u)} :
         /\ ret' = r
         /\ pc' = IF r.kind = "raise" THEN "raised" ELSE "returned"
         /\ sealed' = IF r.kind = "raise" THEN sealed
                      ELSE [data |-> r.data, metadata |-> r.metadata]
  /\ UNCHANGED locatorVars
  /\ UNCHANGED backendVars
  /\ UNCHANGED <<enc_registry, dec_registry, encryptor_registries,
                 decryptor_registries, scopes, optimize, arg_data, arg_metadata,
                 arg_options, arg_self>>

\* decryptor.decrypt(data, metadata) on what encrypt returned
Decrypt ==
  /\ op = "encrypt"
  /\ pc = "returned"
  /\ op' = "decrypt"
  /\ \E m \in MetadataHanded(sealed.metadata, arg_self.encryptor.public_key) :
       \E r \in {decrypt(arg_self.decryptor, sealed.data, m)} :
         /\ arg_metadata' = <<m>>
         /\ ret' = r
         /\ pc' = IF r.kind = "raise" THEN "raised" ELSE "returned"
  /\ UNCHANGED locatorVars
  /\ UNCHANGED backendVars
  /\ UNCHANGED <<enc_registry, dec_registry, encryptor_registries,
                 decryptor_registries, scopes, optimize, arg_data, arg_options,
                 arg_self, sealed>>

\* Encryptor.decipher(data, key, initialization_vector) on the enciphered
\* bytes encrypt returned
Decipher ==
  /\ op = "encrypt"
  /\ pc = "returned"
  /\ op' = "decipher"
  /\ \E key \in Keys, iv \in Ivs :
       \E r \in {decipher(sealed.data, key, iv)} :
         /\ arg_options' = [key |-> Given(key), initialization_vector |-> Given(iv)]
         /\ ret' = r
         /\ pc' = IF r.kind = "raise" THEN "raised" ELSE "returned"
  /\ UNCHANGED locatorVars
  /\ UNCHANGED backendVars
  /\ UNCHANGED <<enc_registry, dec_registry, encryptor_registries,
                 decryptor_registries, scopes, optimize, arg_data, arg_metadata,
                 arg_self, sealed>>

NextCipher == Encrypt \/ Decrypt \/ Decipher

SpecCipher == InitCipher /\ [][NextCipher]_vars

-----------------------------------------------------------------------------
(* Encryptor.append_metadata and Decryptor.strip_metadata on drawn inputs *)

\* the most bytes of a drawn ciphertext
MaxPartLen == 2

\* the ciphertexts: every sequence of the bytes 0 and 255 up to the bound,
\* and one that is longer than 255 bytes
Ciphertexts(n) == SeqsUpTo({0, 255}, n) \cup {Bytes(300, 0, 1)}

\* the names: '', 'n', and names whose characters take 2, 3 and 4 bytes;
\* a name is a sequence of Unicode scalar values
Names == {<<>>, NameN, <<110, 233>>, <<8364>>, <<128512, 109>>}

Metadatas ==
  {Metadata(k, iv, name) : k \in SeqsUpTo({7}, 2), iv \in SeqsUpTo({0, 9}, 1),
                           name \in Names}

\* bytes that are no UTF-8: a stray byte, a lead byte alone, an overlong
\* form and a surrogate
NotUtf8 == {<<255>>, <<195>>, <<192, 128>>, <<237, 160, 128>>}

\* where a buffer is cut short: inside and after every part of a short
\* envelope, and before the last byte
Cuts(envelope) == (0..Min(Len(envelope) - 1, 48)) \cup {Len(envelope) - 1}

\* the buffers a reader may hand to strip_metadata: the envelope, the
\* envelope cut short, with bytes after it, with the first or the last
\* length one too large, and with a name that is no UTF-8
Buffers(envelope, data, metadata) ==
  {envelope}
  \cup {SubSeq(envelope, 1, n) : n \in Cuts(envelope)}
  \cup {envelope \o <<0>>, envelope \o ToBytes(0, LengthSize)}
  \cup {[envelope EXCEPT ![LengthSize] = @ + 1],
        [envelope EXCEPT ![Len(envelope) - Len(data)] = (@ + 1) % 256]}
  \cup {Framed(metadata.key) \o Framed(metadata.initialization_vector)
          \o Framed(b) \o Framed(data) : b \in NotUtf8}

InitEnvelope ==
  /\ NoBackend
  /\ registry = <<>>
  /\ NoCall
  /\ enc_registry = <<>>
  /\ dec_registry = <<>>
  /\ encryptor_registries = <<>>
  /\ decryptor_registries = <<>>
  /\ scopes = <<>>
  /\ optimize \in BOOLEAN
  /\ arg_data \in Ciphertexts(MaxPartLen)
  /\ \E m \in Metadatas : arg_metadata = <<m>>
  /\ arg_options = NoneValue
  /\ arg_self = NoneValue
  /\ sealed = NoneValue

\* Encryptor.append_metadata(data, metadata)
AppendMetadata ==
  /\ pc = "idle"
  /\ op' = "append_metadata"
  /\ ret' = ReturnedBytes(append_metadata(arg_data, arg_metadata[1]))
  /\ pc' = "returned"
  /\ UNCHANGED locatorVars
  /\ UNCHANGED cryptVars
  /\ UNCHANGED backendVars

\* Decryptor.strip_metadata(data) on a buffer made from the envelope
StripMetadata ==
  /\ op = "append_metadata"
  /\ pc = "returned"
  /\ op' = "strip_metadata"
  /\ \E buffer \in Buffers(ret.data, arg_data, arg_metadata[1]) :
       \E r \in {strip_metadata(buffer, ~optimize)} :
         /\ sealed' = [data |-> buffer]
         /\ ret' = r
         /\ pc' = IF r.kind = "raise" THEN "raised" ELSE "returned"
  /\ UNCHANGED locatorVars
  /\ UNCHANGED backendVars
  /\ UNCHANGED <<enc_registry, dec_registry, encryptor_registries,
                 decryptor_registries, scopes, optimize, arg_data, arg_metadata,
                 arg_options, arg_self>>

NextEnvelope == AppendMetadata \/ StripMetadata

SpecEnvelope == InitEnvelope /\ [][NextEnvelope]_vars

-----------------------------------------------------------------------------
(* Registrations and the registry scopes of Cryptor *)

\* the most registries that are saved on a stack of Cryptor
MaxDepth == 2

IndexError == [kind |-> "raise", type |-> "IndexError"]

\* what a body run inside local_registries may end with
BodyError == [kind |-> "raise", type |-> "BodyError"]

\* the registries are saved and keep their entries
push_registries_NoClear(enc, dec, encs, decs) ==
  [enc_registry |-> enc, dec_registry |-> dec,
   encryptor_registries |-> Append(encs, enc),
   decryptor_registries |-> Append(decs, dec), ret |-> NoRet]

\* Cryptor.push_registries: both registries are saved and cleared
push_registries(enc, dec, encs, decs) ==
  [enc_registry |-> <<>>, dec_registry |-> <<>>,
   encryptor_registries |-> Append(encs, enc),
   decryptor_registries |-> Append(decs, dec), ret |-> NoRet]

\* Cryptor.pop_registries: list.pop() raises IndexError on an empty list,
\* after the registry was cleared
pop_registries(enc, dec, encs, decs) ==
  IF encs = <<>>
  THEN [enc_registry |-> <<>>, dec_registry |-> dec, encryptor_registries |-> encs,
        decryptor_registries |-> decs, ret |-> IndexError]
  ELSE IF decs = <<>>
  THEN [enc_registry |-> pop_registry(enc, encs[Len(encs)]), dec_registry |-> <<>>,
        encryptor_registries |-> SubSeq(encs, 1, Len(encs) - 1),
        decryptor_registries |-> decs, ret |-> IndexError]
  ELSE [enc_registry |-> pop_registry(enc, encs[Len(encs)]),
        dec_registry |-> pop_registry(dec, decs[Len(decs)]),
        encryptor_registries |-> SubSeq(encs, 1, Len(encs) - 1),
        decryptor_registries |-> SubSeq(decs, 1, Len(decs) - 1), ret |-> NoRet]

\* the registries and the stacks become those of the record r
Registries(r) ==
  /\ enc_registry' = r.enc_registry
  /\ dec_registry' = r.dec_registry
  /\ encryptor_registries' = r.encryptor_registries
  /\ decryptor_registries' = r.decryptor_registries

InitRegistry ==
  /\ NoBackend
  /\ registry = <<>>
  /\ NoCall
  /\ NoCrypt

\* Encryptor.register_encryptor(encryptor)
RegisterEncryptor ==
  /\ pc = "idle"
  /\ op' = "register_encryptor"
  /\ \E p \in KeyPairs :
       /\ arg_self' = Encryptor(p, NameN)
       /\ enc_registry' = register_encryptor(enc_registry, Encryptor(p, NameN))
  /\ ret' = NoRet
  /\ UNCHANGED <<pc, dec_registry, encryptor_registries, decryptor_registries, scopes,
                 optimize, arg_data, arg_metadata, arg_options, sealed>>
  /\ UNCHANGED locatorVars
  /\ UNCHANGED backendVars

\* Decryptor.register_decryptor(decryptor)
RegisterDecryptor ==
  /\ pc = "idle"
  /\ op' = "register_decryptor"
  /\ \E p \in KeyPairs :
       /\ arg_self' = Decryptor(p, NameN)
       /\ dec_registry' = DictPut(dec_registry, NameN, Decryptor(p, NameN))
       /\ enc_registry' = register_decryptor(enc_registry, Decryptor(p, NameN))
  /\ ret' = NoRet
  /\ UNCHANGED <<pc, encryptor_registries, decryptor_registries, scopes, optimize,
                 arg_data, arg_metadata, arg_options, sealed>>
  /\ UNCHANGED locatorVars
  /\ UNCHANGED backendVars

\* Cryptor.push_registries(), called outside of local_registries
PushRegistries ==
  /\ pc = "idle"
  /\ scopes = <<>>
  /\ Len(encryptor_registries) < MaxDepth
  /\ op' = "push_registries"
  /\ \E r \in {push_registries(enc_registry, dec_registry, encryptor_registries,
                                decryptor_registries)} :
       Registries(r) /\ ret' = r.ret
  /\ UNCHANGED <<pc, scopes, optimize, arg_data, arg_metadata, arg_options, arg_self,
                 sealed>>
  /\ UNCHANGED locatorVars
  /\ UNCHANGED backendVars

\* Cryptor.pop_registries(), called outside of local_registries
PopRegistries ==
  /\ pc = "idle"
  /\ scopes = <<>>
  /\ op' = "pop_registries"
  /\ \E r \in {pop_registries(enc_registry, dec_registry, encryptor_registries,
                               decryptor_registries)} :
       Registries(r) /\ ret' = r.ret
  /\ UNCHANGED <<pc, scopes, optimize, arg_data, arg_metadata, arg_options, arg_self,
                 sealed>>
  /\ UNCHANGED locatorVars
  /\ UNCHANGED backendVars

\* entering `with Cryptor.local_registries():`; scopes keeps what the
\* registries held on entry
EnterLocalRegistries ==
  /\ pc = "idle"
  /\ Len(encryptor_registries) < MaxDepth
  /\ op' = "local_registries.enter"
  /\ scopes' = Append(scopes, [enc_registry |-> enc_registry, dec_registry |-> dec_registry])
  /\ \E r \in {push_registries(enc_registry, dec_registry, encryptor_registries,
                                decryptor_registries)} :
       Registries(r) /\ ret' = r.ret
  /\ UNCHANGED <<pc, optimize, arg_data, arg_metadata, arg_options, arg_self, sealed>>
  /\ UNCHANGED locatorVars
  /\ UNCHANGED backendVars

\* leaving the innermost scope: the body returned, normally or early, or
\* raised, and the finally clause pops
ExitLocalRegistries ==
  /\ pc = "idle"
  /\ scopes # <<>>
  /\ op' = "local_registries.exit"
  /\ scopes' = SubSeq(scopes, 1, Len(scopes) - 1)
  /\ \E body \in {NoRet, BodyError} :
       \E r \in {pop_registries(enc_registry, dec_registry, encryptor_registries,
                                  decryptor_registries)} :
         /\ Registries(r)
         /\ ret' = IF r.ret = IndexError THEN IndexError ELSE body
  /\ UNCHANGED <<pc, optimize, arg_data, arg_metadata, arg_options, arg_self, sealed>>
  /\ UNCHANGED locatorVars
  /\ UNCHANGED backendVars

NextRegistry ==
  \/ RegisterEncryptor
  \/ RegisterDecryptor
  \/ PushRegistries
  \/ PopRegistries
  \/ EnterLocalRegistries
  \/ ExitLocalRegistries

SpecRegistry == InitRegistry /\ [][NextRegistry]_vars

-----------------------------------------------------------------------------
(* Encryptor.encrypt_with_registry and Decryptor.decrypt_with_registry *)

\* "m", a name nothing is registered under
NameM == <<109>>

\* the metadata argument a reader hands over with what encrypt_with_registry
\* returned: None with an envelope; with bare enciphered bytes the metadata
\* returned, or that metadata under the name "m"
MetadataArguments(appended, metadata) ==
  IF appended THEN {<<>>}
  ELSE {<<metadata>>, <<[metadata EXCEPT !.name = NameM]>>}

InitLookup ==
  /\ NoBackend
  /\ registry = <<>>
  /\ NoCall
  /\ enc_registry = <<>>
  /\ dec_registry = <<>>
  /\ encryptor_registries = <<>>
  /\ decryptor_registries = <<>>
  /\ scopes = <<>>
  /\ optimize \in BOOLEAN
  /\ arg_data = <<>>
  /\ arg_metadata = <<>>
  /\ arg_options = NoneValue
  /\ arg_self = NoneValue
  /\ sealed = NoneValue

\* Encryptor.encrypt_with_registry(data, name, key, append_metadata=...)
EncryptWithRegistry ==
  /\ pc = "idle"
  /\ op' = "encrypt_with_registry"
  /\ \E data \in DataInputs(MaxDataBlocks), name \in {NameN, NameM},
        key \in {NoBytes, Given(Bytes(KeySize, 0, 1))}, append \in BOOLEAN,
        u \in Urandom :
       \E r \in {encrypt_with_registry(enc_registry, data, name, key, NoBytes, append, u)} :
         /\ arg_data' = data
         /\ arg_options' = [name |-> name, key |-> key, append_metadata |-> append]
         /\ ret' = r
         /\ pc' = IF r.kind = "raise" THEN "raised" ELSE "returned"
         /\ sealed' = IF r.kind = "raise" THEN sealed
                      ELSE [data |-> r.data, metadata |-> r.metadata]
  /\ UNCHANGED <<enc_registry, dec_registry, encryptor_registries,
                 decryptor_registries, scopes, optimize, arg_metadata, arg_self>>
  /\ UNCHANGED locatorVars
  /\ UNCHANGED backendVars

\* Decryptor.decrypt_with_registry(data, metadata) on what
\* encrypt_with_registry returned
DecryptWithRegistry ==
  /\ op = "encrypt_with_registry"
  /\ pc = "returned"
  /\ op' = "decrypt_with_registry"
  /\ \E m \in MetadataArguments(arg_options.append_metadata, sealed.metadata) :
       \E r \in {decrypt_with_registry(dec_registry, sealed.data, m, ~optimize)} :
         /\ arg_metadata' = m
         /\ ret' = r
         /\ pc' = IF r.kind = "raise" THEN "raised" ELSE "returned"
  /\ UNCHANGED <<enc_registry, dec_registry, encryptor_registries,
                 decryptor_registries, scopes, optimize, arg_data, arg_options,
                 arg_self, sealed>>
  /\ UNCHANGED locatorVars
  /\ UNCHANGED backendVars

\* the caller has its result; the registries stay as they are
Return ==
  /\ pc \in {"returned", "raised"}
  /\ pc' = "idle"
  /\ op' = "none"
  /\ ret' = NoRet
  /\ arg_data' = <<>>
  /\ arg_metadata' = <<>>
  /\ arg_options' = NoneValue
  /\ arg_self' = NoneValue
  /\ sealed' = NoneValue
  /\ UNCHANGED <<enc_registry, dec_registry, encryptor_registries,
                 decryptor_registries, scopes, optimize>>
  /\ UNCHANGED locatorVars
  /\ UNCHANGED backendVars

NextLookup ==
  \/ RegisterEncryptor
  \/ RegisterDecryptor
  \/ EncryptWithRegistry
  \/ DecryptWithRegistry
  \/ Return

SpecLookup == InitLookup /\ [][NextLookup]_vars

-----------------------------------------------------------------------------
(* data_layer.query.SQLQuery.array_condition_query.  A query text is the   *)
(* sequence of the pieces it is concatenated from; '' adds no piece.       *)

\* the most values of a drawn list
MaxValues == 3

\* str + str, over the pieces
Text(pieces) == SelectSeq(pieces, LAMBDA piece : piece # "")

\* separator.join(texts)
RECURSIVE JoinTexts(_, _)
JoinTexts(separator, texts) ==
  IF Len(texts) = 0 THEN <<>>
  ELSE IF Len(texts) = 1 THEN texts[1]
  ELSE texts[1] \o <<separator>> \o JoinTexts(separator, Tail(texts))

\* SQLQuery(query, substitution_parameters)
SQLQuery(query, substitution_parameters) ==
  [kind |-> "return", query |-> query,
   substitution_parameters |-> substitution_parameters]

\* SQLQuery.format_array: '(' + ', '.join(['%s'] * len(array)) + ')'
format_array(array) ==
  <<"(">> \o JoinTexts(", ", [i \in 1..Len(array) |-> <<"%s">>]) \o <<")">>

\* tuple([v for v in values if v is not None])
NotNone(values) == SelectSeq(values, LAMBDA v : v # NoneValue)

\* None in values
HasNone(values) == \E i \in 1..Len(values) : values[i] = NoneValue

\* f'{expression} IS {not_modifier}NULL'
NullCondition(expression, not_modifier) ==
  Text(<<expression, " IS ", not_modifier, "NULL">>)

\* f'{expression} {not_modifier}IN {cls.format_array(...)}'
InCondition(expression, not_modifier, substitution_parameters) ==
  Text(<<expression, " ", not_modifier, "IN ">>) \o format_array(substitution_parameters)

\* the list conditions of array_condition_query
Conditions(expression, values, not_modifier) ==
  (IF HasNone(values) THEN <<NullCondition(expression, not_modifier)>> ELSE <<>>)
  \o (IF NotNone(values) # <<>>
      THEN <<InCondition(expression, not_modifier, NotNone(values))>>
      ELSE <<>>)

\* the conditions are joined with OR whatever negate is
logical_operator_AlwaysOr(negate) == " OR "

\* ' AND ' if negate else ' OR '
logical_operator(negate) == IF negate THEN " AND " ELSE " OR "

\* the return statements of array_condition_query
ConditionQuery(conditions, substitution_parameters, negate) ==
  IF Len(conditions) > 1
  THEN SQLQuery(<<"(">> \o JoinTexts(logical_operator(negate), conditions) \o <<")">>,
                substitution_parameters)
  ELSE SQLQuery(conditions[1], substitution_parameters)

\* SQLQuery.array_condition_query(expression, values, negate)
array_condition_query(expression, values, negate) ==
  IF values = <<>>
  THEN IF negate THEN SQLQuery(<<"FALSE">>, <<>>) ELSE SQLQuery(<<>>, <<>>)
  ELSE ConditionQuery(Conditions(expression, values, IF negate THEN "NOT " ELSE ""),
                      NotNone(values), negate)

\* the values of a list: None, '', 'a' and 'b'
Values == {NoneValue, "", "a", "b"}

Expressions == {"table.column", "c"}

InitQuery ==
  /\ NoBackend
  /\ registry = <<>>
  /\ NoCall
  /\ enc_registry = <<>>
  /\ dec_registry = <<>>
  /\ encryptor_registries = <<>>
  /\ decryptor_registries = <<>>
  /\ scopes = <<>>
  /\ optimize = FALSE
  /\ arg_data = <<>>
  /\ arg_metadata = <<>>
  /\ arg_options \in [expression : Expressions, values : SeqsUpTo(Values, MaxValues),
                       negate : BOOLEAN]
  /\ arg_self = NoneValue
  /\ sealed = NoneValue

\* SQLQuery.array_condition_query(expression, values, negate)
ArrayConditionQuery ==
  /\ pc = "idle"
  /\ op' = "array_condition_query"
  /\ ret' = array_condition_query(arg_options.expression, arg_options.values,
                                  arg_options.negate)
  /\ pc' = "returned"
  /\ UNCHANGED locatorVars
  /\ UNCHANGED cryptVars
  /\ UNCHANGED backendVars

NextQuery == ArrayConditionQuery

SpecQuery == InitQuery /\ [][NextQuery]_vars

-----------------------------------------------------------------------------
(* ResourceLocator instances: locator parameters, flags, transform and     *)
(* untransform.  A resource is a record of its Python type and its value;  *)
(* a zip archive is stood for by the bytes 'PK' followed by the content of *)
(* its one file 'f', and a JSON text by a decimal number.                  *)

\* the most locator parameters of a drawn locator URL
MaxParameters == 2

\* None as a resource
NoResource == [type |-> "NoneType"]

BytesResource(b) == [type |-> "bytes", value |-> b]

StrResource(chars) == [type |-> "str", value |-> chars]

\* the characters of a parameter value that is used as a name
Chars(token) ==
  IF token = "n" THEN NameN
  ELSE IF token = "m" THEN NameM
  ELSE IF token = "x" THEN <<120>>
  ELSE <<>>

\* self.locator_parameters
locator_parameters(u) == strip_locator_parameters(u)[2]

\* str.lower() on the alphabet of flag values
LowerValue(v) ==
  IF v = "TRUE" \/ v = "True" THEN "true"
  ELSE IF v = "T" THEN "t"
  ELSE IF v = "Yes" THEN "yes"
  ELSE IF v = "Y" THEN "y"
  ELSE IF v = "NO" THEN "no"
  ELSE v

AttributeError == [kind |-> "raise", type |-> "AttributeError"]

\* ResourceLocator.locator_flag_value(raw_value): None has no lower()
locator_flag_value(raw_value) ==
  IF raw_value = <<>> THEN AttributeError
  ELSE [kind |-> "return",
        value |-> LowerValue(raw_value[1]) \in {"1", "true", "t", "yes", "y"}]

\* self.get_locator_parameter(parameter): <<>> for None, <<v>> for v
get_locator_parameter(u, parameter) ==
  IF parameter \in DOMAIN locator_parameters(u)
  THEN <<locator_parameters(u)[parameter]>>
  ELSE <<>>

\* self.get_locator_flag(parameter)
get_locator_flag(u, parameter) ==
  locator_flag_value(get_locator_parameter(u, parameter))

\* a step of transform or untransform: r is what the steps before it made,
\* run says whether the step's parameter asks for it, result is what the
\* step makes of r.resource
Step(r, run, name, result) ==
  IF r.kind = "raise" \/ ~run THEN r
  ELSE LET made == result
       IN IF made.kind = "raise"
          THEN [kind |-> "raise", error |-> made, steps |-> Append(r.steps, name)]
          ELSE [kind |-> "return", resource |-> made.resource,
                steps |-> Append(r.steps, name)]

StepReturned(res) == [kind |-> "return", resource |-> res]

TypeError == [kind |-> "raise", type |-> "TypeError"]

\* EncryptTransformer(resource, name).transform(): the encryption backend
\* takes bytes only
EncryptTransform(reg, res, name, urandom) ==
  IF res.type # "bytes" THEN TypeError
  ELSE LET encrypted ==
             encrypt_with_registry(reg, res.value, name, NoBytes, NoBytes, TRUE, urandom)
       IN IF encrypted.kind = "raise" THEN encrypted
          ELSE StepReturned(BytesResource(encrypted.data))

\* DecryptUntransformer(resource).untransform()
DecryptUntransform(reg, res, asserts) ==
  IF res.type # "bytes" THEN TypeError
  ELSE LET decrypted == decrypt_with_registry(reg, res.value, <<>>, asserts)
       IN IF decrypted.kind = "raise" THEN decrypted
          ELSE StepReturned(BytesResource(decrypted.data))

\* the first bytes of a zip archive
ZipMagic == <<80, 75>>

BadZipFile == [kind |-> "raise", type |-> "BadZipFile"]

\* ZipUntransformer(resource).untransform(): the files of the archive
ZipUntransform(res) ==
  IF res.type # "bytes" THEN TypeError
  ELSE IF Slice(res.value, 0, 2) # ZipMagic THEN BadZipFile
  ELSE StepReturned([type |-> "dict", files |-> Slice(res.value, 2, Len(res.value))])

LookupError == [kind |-> "raise", type |-> "LookupError"]

\* DecodeUntransformer(resource, encoding).untransform()
DecodeUntransform(res, encoding) ==
  IF res.type # "bytes" THEN AttributeError
  ELSE IF encoding # "utf-8" THEN LookupError
  ELSE LET decoded == Utf8Decode(res.value)
       IN IF decoded.kind = "raise" THEN decoded
          ELSE StepReturned(StrResource(decoded.name))

JSONDecodeError == [kind |-> "raise", type |-> "JSONDecodeError"]

\* the number a decimal text stands for
RECURSIVE Decimal(_)
Decimal(chars) ==
  IF Len(chars) = 0 THEN 0
  ELSE 10 * Decimal(SubSeq(chars, 1, Len(chars) - 1)) + (chars[Len(chars)] - 48)

\* json.loads on a text
JsonLoads(chars) ==
  IF /\ Len(chars) > 0
     /\ \A i \in 1..Len(chars) : chars[i] >= 48 /\ chars[i] <= 57
     /\ (Len(chars) > 1 => chars[1] # 48)
  THEN StepReturned([type |-> "int", value |-> Decimal(chars)])
  ELSE JSONDecodeError

\* JSONUntransformer(resource).untransform(): json.loads decodes bytes
JSONUntransform(res) ==
  IF res.type = "str" THEN JsonLoads(res.value)
  ELSE IF res.type # "bytes" THEN TypeError
  ELSE LET decoded == Utf8Decode(res.value)
       IN IF decoded.kind = "raise" THEN decoded ELSE JsonLoads(decoded.name)

\* no step has run
Unstepped(res) == [kind |-> "return", resource |-> res, steps |-> <<>>]

\* the value of a parameter, '' when it is missing
Parameter(parameters, k) == IF k \in DOMAIN parameters THEN parameters[k] ELSE ""

\* ResourceLocator.transform(resource)
transform(u, res, reg, urandom) ==
  IF res = NoResource THEN Unstepped(res)
  ELSE Step(Unstepped(res), "encrypt" \in DOMAIN locator_parameters(u), "encrypt",
            EncryptTransform(reg, res, Chars(Parameter(locator_parameters(u), "encrypt")),
                             urandom))

\* the steps of untransform after the first, each on what the one before made
Decoded(r, parameters) ==
  Step(r, "encode" \in DOMAIN parameters, "decode",
       DecodeUntransform(r.resource, Parameter(parameters, "encode")))

Unzipped(r, parameters) ==
  Step(r, Parameter(parameters, "compress") = "zip", "unzip", ZipUntransform(r.resource))

Parsed(r, parameters) ==
  Step(r, Parameter(parameters, "type") = "json", "json", JSONUntransform(r.resource))

\* ResourceLocator.untransform(resource)
untransform(u, res, reg, asserts) ==
  IF res = NoResource THEN Unstepped(res)
  ELSE LET parameters == locator_parameters(u)
           decrypted == Step(Unstepped(res), "encrypt" \in DOMAIN parameters, "decrypt",
                             DecryptUntransform(reg, res, asserts))
           unzipped == Unzipped(decrypted, parameters)
           decoded == Decoded(unzipped, parameters)
       IN Parsed(decoded, parameters)

\* the locator parameters the drawn URLs are put together from
LocatorPairs ==
  {<<"encrypt", "n">>, <<"encrypt", "">>, <<"type", "json">>, <<"verbose", "TRUE">>}

\* queries with all four steps, with values that ask for no step, and with
\* a parameter in front of the sentinel
FullQueries ==
  {<<Sentinel, <<"encrypt", "n">>, <<"compress", "zip">>, <<"encode", "utf-8">>,
     <<"type", "json">> >>,
   <<Sentinel, <<"type", "json">>, <<"encode", "utf-8">>, <<"compress", "zip">>,
     <<"encrypt", "m">> >>,
   <<Sentinel, <<"compress", "zip">>, <<"encode", "utf-8">>, <<"type", "json">> >>,
   <<Sentinel, <<"compress", "zip">> >>,
   <<Sentinel, <<"compress", "zip">>, <<"type", "json">> >>,
   <<Sentinel, <<"encode", "utf-8">>, <<"type", "json">> >>,
   <<Sentinel, <<"encode", "utf-8">> >>,
   <<Sentinel, <<"encode", "">>, <<"compress", "zip">> >>,
   <<Sentinel, <<"compress", "x">>, <<"type", "x">>, <<"encode", "x">> >>,
   <<Sentinel, <<"verbose", "0">>, <<"encrypt", "x">> >>,
   <<Sentinel, <<"verbose", "Yes">>, <<"encrypt", "n">>, <<"encrypt", "">> >>,
   <<Sentinel, <<"verbose", "x">> >>,
   << <<"encrypt", "n">>, <<"verbose", "1">>, Sentinel, <<"type", "json">> >>}

LocatorQueries(n) ==
  {<<>>} \cup {<<Sentinel>> \o q : q \in SeqsUpTo(LocatorPairs, n)} \cup FullQueries

\* file:///a?<query>
LocatorUrls(n) == {Url("file", <<>>, <<"/", "a">>, q) : q \in LocatorQueries(n)}

\* what a writer with the public key of pair p stored under a name
Stored(data, name, p, urandom) ==
  encrypt_with_registry(DictPut(<<>>, name, Encryptor(p, name)), data, name,
                        NoBytes, NoBytes, TRUE, urandom).data

\* the archive of the JSON text '1'
Archive == ZipMagic \o <<49>>

\* None, plain bytes (an archive, a JSON text, bytes that are no UTF-8, a
\* zero byte) and envelopes under a registered and under another name
Resources(urandom) ==
  {NoResource, BytesResource(Archive), BytesResource(<<49>>), BytesResource(<<255>>),
   BytesResource(<<0>>),
   BytesResource(Stored(Archive, NameN, 1, urandom)),
   BytesResource(Stored(<<49>>, NameN, 1, urandom)),
   BytesResource(Stored(<<49>>, NameM, 1, urandom))}

\* the flags that are asked for
Flags == {"verbose", "encrypt", "debug"}

InitTransform ==
  /\ registry = <<>>
  /\ NoCall
  /\ enc_registry = <<>>
  /\ dec_registry = <<>>
  /\ encryptor_registries = <<>>
  /\ decryptor_registries = <<>>
  /\ scopes = <<>>
  /\ optimize \in BOOLEAN
  /\ arg_data = <<>>
  /\ arg_metadata = <<>>
  /\ arg_options = NoneValue
  /\ arg_self = NoneValue
  /\ sealed = NoneValue
  /\ \E u \in LocatorUrls(MaxParameters) :
       locator = [class |-> "ResourceLocator", url |-> u, safe |-> TRUE]
  /\ resource \in Resources(CHOOSE u \in Urandom : u.seed = 3)
  /\ environment = NoneValue
  /\ effects = <<>>

\* what a call made of a resource: returned or raised
Stepped(r) ==
  IF r.kind = "raise" THEN r.error ELSE [kind |-> "return", resource |-> r.resource]

\* locator.untransform(resource)
Untransform ==
  /\ pc = "idle"
  /\ op' = "untransform"
  /\ \E r \in {untransform(locator.url, resource, dec_registry, ~optimize)} :
       /\ ret' = Stepped(r)
       /\ effects' = r.steps
       /\ pc' = IF r.kind = "raise" THEN "raised" ELSE "returned"
  /\ UNCHANGED <<locator, resource, environment>>
  /\ UNCHANGED cryptVars
  /\ UNCHANGED locatorVars

\* locator.transform(resource)
Transform ==
  /\ pc = "idle"
  /\ op' = "transform"
  /\ \E u \in {d \in Urandom : d.seed = 3 /\ d.initialization_vector = Bytes(IvSize, 0, 1)} :
       \E r \in {transform(locator.url, resource, enc_registry, u)} :
         /\ ret' = Stepped(r)
         /\ effects' = r.steps
         /\ pc' = IF r.kind = "raise" THEN "raised" ELSE "returned"
  /\ UNCHANGED <<locator, resource, environment>>
  /\ UNCHANGED cryptVars
  /\ UNCHANGED locatorVars

\* locator.get_locator_flag(parameter)
GetLocatorFlag ==
  /\ pc = "idle"
  /\ op' = "get_locator_flag"
  /\ \E parameter \in Flags :
       \E r \in {get_locator_flag(locator.url, parameter)} :
         /\ arg_options' = [parameter |-> parameter]
         /\ ret' = r
         /\ pc' = IF r.kind = "raise" THEN "raised" ELSE "returned"
  /\ UNCHANGED <<enc_registry, dec_registry, encryptor_registries,
                 decryptor_registries, scopes, optimize, arg_data, arg_metadata,
                 arg_self, sealed>>
  /\ UNCHANGED backendVars
  /\ UNCHANGED locatorVars

NextTransform ==
  \/ RegisterDecryptor
  \/ Untransform
  \/ Transform
  \/ GetLocatorFlag

SpecTransform == InitTransform /\ [][NextTransform]_vars

-----------------------------------------------------------------------------
(* The backends: get, put, delete and list of each locator class, under    *)
(* handle_location_error, check_safe_file_path, transform_resource and     *)
(* untransform_resource.  A path is the sequence of its characters.        *)

\* posixpath.normpath keeps two leading slashes, and one of any other number
InitialSlashes(path) ==
  IF Len(path) = 0 \/ path[1] # "/" THEN 0
  ELSE IF Len(path) >= 2 /\ path[2] = "/" /\ ~(Len(path) >= 3 /\ path[3] = "/") THEN 2
  ELSE 1

\* the loop of posixpath.normpath over the components
RECURSIVE NormComps(_, _, _)
NormComps(comps, new_comps, rooted) ==
  IF Len(comps) = 0 THEN new_comps
  ELSE IF Head(comps) = <<>> \/ Head(comps) = <<".">>
  THEN NormComps(Tail(comps), new_comps, rooted)
  ELSE IF \/ Head(comps) # <<".", ".">>
          \/ (~rooted /\ Len(new_comps) = 0)
          \/ (Len(new_comps) > 0 /\ new_comps[Len(new_comps)] = <<".", ".">>)
  THEN NormComps(Tail(comps), Append(new_comps, Head(comps)), rooted)
  ELSE IF Len(new_comps) > 0
  THEN NormComps(Tail(comps), SubSeq(new_comps, 1, Len(new_comps) - 1), rooted)
  ELSE NormComps(Tail(comps), new_comps, rooted)

\* posixpath.normpath(path)
normpath(path) ==
  IF Len(path) = 0 THEN <<".">>
  ELSE LET joined == [i \in 1..InitialSlashes(path) |-> "/"]
                       \o Join(NormComps(Split(path), <<>>, InitialSlashes(path) > 0))
       IN IF Len(joined) = 0 THEN <<".">> ELSE joined

\* posixpath.join(cwd, path)
PathJoin(cwd, path) ==
  IF Len(path) > 0 /\ path[1] = "/" THEN path
  ELSE IF Len(cwd) = 0 \/ cwd[Len(cwd)] = "/" THEN cwd \o path
  ELSE cwd \o <<"/">> \o path

\* os.path.abspath(path) in the working directory cwd
abspath(path, cwd) == normpath(PathJoin(cwd, path))

\* str.startswith
startswith(s, prefix) == Len(prefix) <= Len(s) /\ SubSeq(s, 1, Len(prefix)) = prefix

\* what a call made and what it ran on the way
Did(made, ran) == [ret |-> made, effects |-> ran]

Raised(type) == [kind |-> "raise", type |-> type]

\* LocationError(url=self.url, error=e)
LocationError(u, e) == [kind |-> "raise", type |-> "LocationError", url |-> u, error |-> e]

Interrupts == {"KeyboardInterrupt", "SystemExit"}

\* handle_location_error: r is what the decorated function did
handle_location_error(loc, r) ==
  IF r.ret.kind = "raise" /\ r.ret.type \notin Interrupts
  THEN Did(LocationError(loc.url, r.ret), r.effects)
  ELSE r

\* the test of check_safe_file_path
IsOutside(loc, env) ==
  loc.safe /\ ~startswith(abspath(loc.url.path, env.cwd), env.cwd \o <<"/">>)

\* check_safe_file_path: r is what the decorated function does when called
check_safe_file_path(loc, env, r) ==
  IF IsOutside(loc, env) THEN Did(ValueError, <<>>) ELSE r

\* untransform_resource: r is what the decorated function did
untransform_resource(loc, r, reg, asserts) ==
  IF r.ret.kind = "raise" THEN r
  ELSE LET untransformed == untransform(loc.url, r.ret.resource, reg, asserts)
       IN Did(Stepped(untransformed), r.effects \o untransformed.steps)

\* the backend operation a method rests on: it raises what the
\* environment has it raise, and returns value otherwise
Operate(name, env, value) ==
  IF env.outcome \in Interrupts \cup {"OSError"}
  THEN Did(Raised(env.outcome), <<name>>)
  ELSE Did(StepReturned(value), <<name>>)

\* subprocess.call, subprocess.run and the assert on the return code
Subprocess(name, env, value, asserts) ==
  IF env.outcome = "nonzero" /\ asserts THEN Did(Raised("AssertionError"), <<name>>)
  ELSE Operate(name, env, value)

\* transform_resource: the decorated function is the backend operation
\* named, which needs a resource of one of the types given
transform_resource(loc, res, reg, urandom, name, types, env) ==
  LET transformed == transform(loc.url, res, reg, urandom)
  IN IF transformed.kind = "raise" THEN Did(transformed.error, transformed.steps)
     ELSE LET operated == Operate(name, env, NoResource)
          IN IF operated.ret.kind = "return" /\ transformed.resource.type \notin types
             THEN Did(TypeError, transformed.steps \o operated.effects)
             ELSE Did(operated.ret, transformed.steps \o operated.effects)

\* a list that list() returns
Listing == [type |-> "list"]

NotImplemented == Did(Raised("NotImplementedError"), <<>>)

EndsWithSlash(path) == Len(path) > 0 /\ path[Len(path)] = "/"

\* FileLocator.get, put, delete and list
FileLocator(method, loc, res, env, enc, dec, asserts, urandom) ==
  handle_location_error(loc, check_safe_file_path(loc, env,
    IF method = "get"
    THEN untransform_resource(loc, Operate("open", env, env.content), dec, asserts)
    ELSE IF method = "put"
    THEN IF EndsWithSlash(loc.url.path)
         THEN transform_resource(loc, res, enc, urandom, "mkdir",
                                 {"NoneType", "bytes", "str"}, env)
         ELSE transform_resource(loc, res, enc, urandom, "open", {"bytes"}, env)
    ELSE IF method = "delete"
    THEN Operate(IF EndsWithSlash(loc.url.path) THEN "rmtree" ELSE "remove", env, NoResource)
    ELSE Operate("walk", env, Listing)))

\* S3Locator.get, put, delete and list
S3Locator(method, loc, res, env, enc, dec, asserts, urandom) ==
  handle_location_error(loc,
    IF method = "get"
    THEN untransform_resource(loc, Operate("get_object", env, env.content), dec, asserts)
    ELSE IF method = "put"
    THEN transform_resource(loc, res, enc, urandom, "put_object",
                            {"NoneType", "bytes", "str"}, env)
    ELSE IF method = "delete" THEN Operate("delete_object", env, NoResource)
    ELSE Operate("list_objects", env, Listing))

\* the scp call of SSHLocator.get and put, behind the verbose flag
Scp(loc, env, value, asserts) ==
  IF get_locator_flag(loc.url, "verbose").kind = "raise"
  THEN Did(get_locator_flag(loc.url, "verbose"), <<>>)
  ELSE Subprocess("scp", env, value, asserts)

\* SSHLocator.put behind transform_resource: resource is a local path
SSHPut(loc, res, env, enc, asserts, urandom) ==
  LET transformed == transform(loc.url, res, enc, urandom)
  IN IF transformed.kind = "raise" THEN Did(transformed.error, transformed.steps)
     ELSE IF transformed.resource.type = "NoneType"
     THEN Did(AttributeError, transformed.steps)
     ELSE IF transformed.resource.type # "str" THEN Did(TypeError, transformed.steps)
     ELSE LET copied == Scp(loc, env, NoResource, asserts)
          IN Did(copied.ret, transformed.steps \o copied.effects)

\* '/t', a path in a temporary directory
LocalPath == <<47, 116>>

\* SSHLocator.get, put, delete and list; get returns the local path
SSHLocator(method, loc, res, env, enc, dec, asserts, urandom) ==
  handle_location_error(loc,
    IF method = "get"
    THEN LET copied == Scp(loc, env, StrResource(LocalPath), asserts)
         IN untransform_resource(loc, Did(copied.ret, <<"mkdtemp">> \o copied.effects),
                                 dec, asserts)
    ELSE IF method = "put" THEN SSHPut(loc, res, env, enc, asserts, urandom)
    ELSE IF method = "delete" THEN NotImplemented
    ELSE Subprocess("ssh", env, Listing, asserts))

\* ConstantLocator.untransform: the constant is encoded first
ConstantUntransform(loc, res, reg, asserts) ==
  IF res = NoResource \/ "decoding" \notin DOMAIN locator_parameters(loc.url)
  THEN Did(Stepped(untransform(loc.url, res, reg, asserts)),
            untransform(loc.url, res, reg, asserts).steps)
  ELSE IF locator_parameters(loc.url)["decoding"] # "utf-8"
  THEN Did(LookupError, <<"encode">>)
  ELSE LET untransformed ==
             untransform(loc.url, BytesResource(Utf8Encode(res.value)), reg, asserts)
       IN Did(Stepped(untransformed), <<"encode">> \o untransformed.steps)

\* ConstantLocator.get and list; put and delete are those of ResourceLocator
ConstantLocator(method, loc, res, env, enc, dec, asserts, urandom) ==
  handle_location_error(loc,
    IF method = "get"
    THEN ConstantUntransform(loc,
           IF "constant" \in DOMAIN locator_parameters(loc.url)
           THEN StrResource(Chars(locator_parameters(loc.url)["constant"]))
           ELSE NoResource, dec, asserts)
    ELSE IF method = "list" THEN Did(StepReturned(Listing), <<>>)
    ELSE NotImplemented)

\* BaseLocator.get; put, delete and list are those of ResourceLocator
BaseLocator(method, loc, res, env, enc, dec, asserts, urandom) ==
  handle_location_error(loc,
    IF method = "get" THEN Operate("urlopen", env, env.content) ELSE NotImplemented)

\* the method of the class of the locator
Call(method, loc, res, env, enc, dec, asserts, urandom) ==
  IF loc.class = "FileLocator"
  THEN FileLocator(method, loc, res, env, enc, dec, asserts, urandom)
  ELSE IF loc.class = "S3Locator"
  THEN S3Locator(method, loc, res, env, enc, dec, asserts, urandom)
  ELSE IF loc.class = "SSHLocator"
  THEN SSHLocator(method, loc, res, env, enc, dec, asserts, urandom)
  ELSE IF loc.class = "ConstantLocator"
  THEN ConstantLocator(method, loc, res, env, enc, dec, asserts, urandom)
  ELSE IF loc.class = "BaseLocator"
  THEN BaseLocator(method, loc, res, env, enc, dec, asserts, urandom)
  ELSE handle_location_error(loc, NotImplemented)

\* paths that leave a directory and come back, and a sibling of '/a'
LongPaths ==
  {<<"/", "a", "/", ".", ".", "/", "a", "/", "a">>,
   <<"/", "a", "/", "a", "/", ".", ".", "/", ".", ".">>,
   <<"a", "/", ".", ".", "/", ".", ".", "/", "a">>,
   <<"/", "a", "a", "/", "a">>,
   <<"/", "a", "/", "a", "/", "a", "/">>,
   <<"/", "/", "a", "/", "a">>}

FileLocators(n) ==
  [class : {"FileLocator"},
   url : {Url(scheme, <<>>, path, q) :
            scheme \in {"file", ""}, path \in Paths(n) \cup LongPaths,
            q \in {<<>>, <<Sentinel, <<"encrypt", "n">> >>}},
   safe : BOOLEAN]

\* locators of the other classes
RemoteLocators ==
  [class : {"S3Locator"},
   url : {Url("s3", <<"h">>, <<"/", "a">>, <<Sentinel, <<"region", "x">> >> \o q) :
            q \in {<<>>, << <<"encrypt", "n">> >>}},
   safe : {TRUE}]
  \cup
  [class : {"SSHLocator"},
   url : {Url("ssh", <<"h">>, <<"/", "a">>, q) :
            q \in {<<>>, <<Sentinel, <<"verbose", "0">> >>,
                   <<Sentinel, <<"verbose", "TRUE">>, <<"encrypt", "n">> >>}},
   safe : {TRUE}]
  \cup
  [class : {"ConstantLocator"},
   url : {Url("constant", <<>>, <<>>, q) :
            q \in {<<>>, <<Sentinel, <<"constant", "x">> >>,
                   <<Sentinel, <<"constant", "1">>, <<"decoding", "utf-8">>,
                     <<"type", "json">> >>,
                   <<Sentinel, <<"constant", "x">>, <<"decoding", "x">> >>}},
   safe : {TRUE}]
  \cup
  [class : {"BaseLocator", "ResourceLocator"},
   url : {Url("https", <<"h">>, <<"/", "a">>, <<>>)},
   safe : {TRUE}]

\* the working directories
WorkingDirectories == {<<"/">>, <<"/", "a">>, <<"/", "a", "/", "a">>}

\* what the backend operation of the call does: it succeeds, it raises,
\* or the process it starts returns a code that is not 0
Outcomes == {"ok", "OSError", "KeyboardInterrupt", "SystemExit", "nonzero"}

\* the resources that are put: None, bytes and a local path
PutResources == {NoResource, BytesResource(<<49>>), StrResource(LocalPath)}

InitBackend ==
  /\ registry = <<>>
  /\ NoCall
  /\ enc_registry = <<>>
  /\ dec_registry = <<>>
  /\ encryptor_registries = <<>>
  /\ decryptor_registries = <<>>
  /\ scopes = <<>>
  /\ optimize \in BOOLEAN
  /\ arg_data = <<>>
  /\ arg_metadata = <<>>
  /\ arg_options = NoneValue
  /\ arg_self = NoneValue
  /\ sealed = NoneValue
  /\ locator \in FileLocators(MaxPathLen) \cup RemoteLocators
  /\ resource = NoResource
  /\ environment \in [cwd : WorkingDirectories, outcome : Outcomes,
                       content : {BytesResource(<<49>>)}]
  /\ environment.outcome = "nonzero" => locator.class = "SSHLocator"
  /\ effects = <<>>

\* locator.get()
Get ==
  /\ pc = "idle"
  /\ op' = "get"
  /\ \E r \in {Call("get", locator, resource, environment, enc_registry,
                     dec_registry, ~optimize, CHOOSE u \in Urandom : u.seed = 3)} :
       /\ ret' = r.ret
       /\ effects' = r.effects
       /\ pc' = IF r.ret.kind = "raise" THEN "raised" ELSE "returned"
  /\ UNCHANGED <<locator, resource, environment>>
  /\ UNCHANGED cryptVars
  /\ UNCHANGED locatorVars

\* locator.put(resource)
Put ==
  /\ pc = "idle"
  /\ op' = "put"
  /\ \E res \in PutResources :
       /\ resource' = res
       /\ \E r \in {Call("put", locator, res, environment, enc_registry,
                          dec_registry, ~optimize, CHOOSE u \in Urandom : u.seed = 3)} :
            /\ ret' = r.ret
            /\ effects' = r.effects
            /\ pc' = IF r.ret.kind = "raise" THEN "raised" ELSE "returned"
  /\ UNCHANGED <<locator, environment>>
  /\ UNCHANGED cryptVars
  /\ UNCHANGED locatorVars

\* locator.delete()
Delete ==
  /\ pc = "idle"
  /\ op' = "delete"
  /\ \E r \in {Call("delete", locator, resource, environment, enc_registry,
                     dec_registry, ~optimize, CHOOSE u \in Urandom : u.seed = 3)} :
       /\ ret' = r.ret
       /\ effects' = r.effects
       /\ pc' = IF r.ret.kind = "raise" THEN "raised" ELSE "returned"
  /\ UNCHANGED <<locator, resource, environment>>
  /\ UNCHANGED cryptVars
  /\ UNCHANGED locatorVars

\* locator.list()
List ==
  /\ pc = "idle"
  /\ op' = "list"
  /\ \E r \in {Call("list", locator, resource, environment, enc_registry,
                     dec_registry, ~optimize, CHOOSE u \in Urandom : u.seed = 3)} :
       /\ ret' = r.ret
       /\ effects' = r.effects
       /\ pc' = IF r.ret.kind = "raise" THEN "raised" ELSE "returned"
  /\ UNCHANGED <<locator, resource, environment>>
  /\ UNCHANGED cryptVars
  /\ UNCHANGED locatorVars

NextBackend ==
  \/ Get
  \/ Put
  \/ Delete
  \/ List

SpecBackend == InitBackend /\ [][NextBackend]_vars

-----------------------------------------------------------------------------
(* locator_factory *)

\* the class that locator_factory constructs for a scheme
LocatorClass(scheme) ==
  IF scheme = "file" \/ scheme = "" THEN "FileLocator"
  ELSE IF scheme = "s3" THEN "S3Locator"
  ELSE IF scheme = "ssh" THEN "SSHLocator"
  ELSE IF scheme = "constant" THEN "ConstantLocator"
  ELSE "BaseLocator"

\* cls(url=url): S3Locator asserts that the URL has a region and makes its
\* boto3 resource, which without a region fails or not with the
\* configuration of the machine (boto)
Construct(class, u, asserts, boto) ==
  IF class = "S3Locator" /\ get_locator_parameter(u, "region") = <<>> /\ asserts
  THEN Raised("AssertionError")
  ELSE IF class = "S3Locator" /\ get_locator_parameter(u, "region") = <<>> /\ boto # "ok"
  THEN Raised(boto)
  ELSE [kind |-> "return", locator |-> [class |-> class, url |-> u, safe |-> TRUE]]

\* the class is picked by the scheme of url and not of the dealiased URL
Picked_SchemeOfUrl(u, dealiased) == LocatorClass(urlparse(u).scheme)

\* the class that locator_factory picks
Picked(u, dealiased) == LocatorClass(urlparse(dealiased).scheme)

\* locator_factory(url): what it returns or raises, and the class it picked
locator_factory(reg, u, asserts, boto) ==
  LET dealiased == dealias_url(reg, u, <<>>)
  IN IF dealiased.kind = "raise" THEN Did(dealiased, <<>>)
     ELSE Did(Construct(Picked(u, dealiased.url), dealiased.url, asserts, boto),
              <<Picked(u, dealiased.url)>>)

\* the aliases registered before the factory is called
FactoryAliases == {<<"a">>, <<"b">>}

\* file:///a/, s3://h/a/ with and without a region, ssh://h/a/, constant:
\* with a constant
Targets ==
  {Url("file", <<>>, <<"/", "a", "/">>, <<>>),
   Url("s3", <<"h">>, <<"/", "a", "/">>, <<Sentinel, <<"region", "x">> >>),
   Url("s3", <<"h">>, <<"/", "a", "/">>, <<>>),
   Url("ssh", <<"h">>, <<"/", "a", "/">>, <<>>),
   Url("constant", <<>>, <<>>, <<Sentinel, <<"constant", "x">> >>)}

FactoryTargets == Targets \cup {Backend, FilePath, AliasTo(1), AliasTo(2)}

\* the URLs handed to locator_factory: aliases, and URLs that are none
FactoryUrls ==
  Targets
  \cup
  {Url("alias", <<"a">>, <<>>, <<>>),
   Url("alias", <<"b">>, <<"/", "a">>, <<Sentinel, <<"region", "x">> >>),
   Url("ALIAS", <<"A">>, <<>>, <<>>),
   Url("alias", <<"c">>, <<>>, <<>>),
   Url("S3", <<"h">>, <<"/", "a">>, <<Sentinel, <<"region", "x">> >>),
   Url("https", <<"h">>, <<"/", "a">>, <<>>),
   Url("", <<>>, <<"a">>, <<>>)}

InitFactory ==
  /\ NoBackend
  /\ registry = <<>>
  /\ NoCall
  /\ enc_registry = <<>>
  /\ dec_registry = <<>>
  /\ encryptor_registries = <<>>
  /\ decryptor_registries = <<>>
  /\ scopes = <<>>
  /\ optimize \in BOOLEAN
  /\ arg_data = <<>>
  /\ arg_metadata = <<>>
  /\ arg_options = NoneValue
  /\ arg_self = NoneValue
  /\ sealed = NoneValue

\* locator_factory(url)
LocatorFactory ==
  /\ pc = "idle"
  /\ op' = "locator_factory"
  /\ \E u \in FactoryUrls, boto \in {"ok", "NoRegionError"} :
       \E r \in {locator_factory(registry, u, ~optimize, boto)} :
         /\ arg_url' = u
         /\ ret' = r.ret
         /\ effects' = r.effects
         /\ locator' = IF r.ret.kind = "return" /\ r.effects # <<>>
                        THEN r.ret.locator ELSE locator
         /\ pc' = IF r.ret.kind = "raise" THEN "raised" ELSE "returned"
  /\ UNCHANGED <<registry, arg_base_url, arg_parameters, arg_alias, url, chain, hops,
                 trail, resource, environment>>
  /\ UNCHANGED cryptVars

NextFactory ==
  \/ \E alias \in FactoryAliases, u \in FactoryTargets : register_url(alias, u)
  \/ LocatorFactory

SpecFactory == InitFactory /\ [][NextFactory]_vars

-----------------------------------------------------------------------------
(* Properties of the locator-parameter codec *)

\* C1: for every URL u and parameter mapping m,
\* strip_locator_parameters(append_locator_parameters(u, m)) is (u, m): the
\* base URL is unmodified and the mapping is reproduced.
C1_StripAppendIsIdentity ==
  (op = "append_locator_parameters" /\ pc = "returned")
    => strip_locator_parameters(ret.url) = <<arg_url, arg_parameters>>

-----------------------------------------------------------------------------
(* Properties of the alias resolver *)

\* the URLs of a resolution, from the caller's URL to the deepest registered
\* URL that was looked up
HopUrls == <<arg_url>> \o [k \in 1..Len(trail) |-> trail[k].base_url]

\* the alias names looked up so far, in order
Visited == [k \in 1..Len(trail) |-> trail[k].alias]

LocatorParametersOf(u) == strip_locator_parameters(u)[2]

\* the name=value entries of a query string, unquoted
Entries(query) == [i \in 1..Len(query) |-> <<Unquote(query[i][1]), Unquote(query[i][2])>>]

\* the entries of a URL's query that precede its last sentinel (all of them
\* when it has none)
PlainEntries(u) ==
  IF LastIndex(Entries(u.query), Sentinel) = 0 THEN Entries(u.query)
  ELSE SubSeq(Entries(u.query), 1, LastIndex(Entries(u.query), Sentinel) - 1)

\* the hop nearest the caller that sets the locator parameter k
NearestHop(k) ==
  CHOOSE i \in 1..Len(HopUrls) :
    /\ k \in DOMAIN LocatorParametersOf(HopUrls[i])
    /\ \A j \in 1..(i - 1) : k \notin DOMAIN LocatorParametersOf(HopUrls[j])

\* the plain entries of hops i..1, the deepest first
RECURSIVE EntriesOutward(_)
EntriesOutward(i) ==
  IF i = 0 THEN <<>> ELSE PlainEntries(HopUrls[i]) \o EntriesOutward(i - 1)

WithoutLeadingSlash(path) ==
  IF path # <<>> /\ path[1] = "/" THEN Tail(path) ELSE path

\* the path of hops 1..i: each hop's path joined onto the path of the URL
\* it refers to
RECURSIVE PathOutward(_)
PathOutward(i) ==
  IF i = 1 THEN HopUrls[1].path
  ELSE IF HopUrls[i].path = <<>> THEN PathOutward(i - 1)
  ELSE urljoin(HopUrls[i].path, WithoutLeadingSlash(PathOutward(i - 1)))

\* C2: when dealias_url resolves a URL through alias hops, a locator
\* parameter set at several hops takes the value of the hop nearest the
\* caller's URL, the plain query parameters of all hops are kept, ordered
\* from the deepest registered URL outward, and each hop's path is joined
\* onto the path of the URL it refers to.
C2_HopsMerge ==
  (op = "dealias_url" /\ pc = "returned" /\ Len(trail) >= 1)
    => /\ DOMAIN LocatorParametersOf(ret.url)
            = UNION {DOMAIN LocatorParametersOf(HopUrls[i]) : i \in 1..Len(HopUrls)}
       /\ \A k \in DOMAIN LocatorParametersOf(ret.url) :
            LocatorParametersOf(ret.url)[k] = LocatorParametersOf(HopUrls[NearestHop(k)])[k]
       /\ PlainEntries(ret.url) = EntriesOutward(Len(HopUrls))
       /\ ret.url.path = PathOutward(Len(HopUrls))

\* the alias of the current invocation is already on the resolution chain
Revisits ==
  /\ pc = "dealias"
  /\ urlparse(url).scheme = "alias"
  /\ \E k \in 1..Len(Visited) : Visited[k] = hostname(urlparse(url))

\* C3: when the resolution reaches an alias name that is already on the
\* chain, dealias_url raises LocationRegistryCircularDependencyError built
\* from the full chain of visited aliases ending with the repeated name, and
\* returns no URL.
C3_CircularChainRaises ==
  [][Revisits =>
       /\ pc' = "raised"
       /\ ret' = LocationRegistryCircularDependencyError(
                   Append(Visited, hostname(urlparse(url))))]_vars

C3_Witness ==
  /\ pc = "raised"
  /\ ret.type = "LocationRegistryCircularDependencyError"
  /\ Len(ret.chain) >= 3
  /\ ret.chain[Len(ret.chain)] = ret.chain[1]

\* C4: dealias_url terminates: it visits each alias name at most once, so a
\* call makes at most (number of registered aliases + 1) invocations before
\* it returns a URL or raises a registry error.  Every invocation ends in a
\* return, a raise or one recursive call, every recursive call adds one to
\* the number of invocations, and that number is bounded.
C4_DealiasTerminates ==
  /\ [](op = "dealias_url" =>
          /\ hops <= Cardinality(DOMAIN registry) + 1
          /\ \A i, j \in 1..Len(Visited) : Visited[i] = Visited[j] => i = j
          /\ pc = "dealias" =>
               dealias_frame(registry, url, chain).kind \in {"return", "raise", "recurse"})
  /\ [][(pc = "dealias" /\ pc' = "dealias") =>
          /\ hops' = hops + 1
          /\ Len(Visited') = Len(Visited) + 1
          /\ registry' = registry]_vars

C4_Witness ==
  /\ op = "dealias_url"
  /\ pc \in {"returned", "raised"}
  /\ Cardinality(DOMAIN registry) >= 2
  /\ hops = Cardinality(DOMAIN registry) + 1

\* the alias of the current invocation is not registered
LooksUpMissing ==
  /\ pc = "dealias"
  /\ urlparse(url).scheme = "alias"
  /\ hostname(urlparse(url)) \notin DOMAIN registry

\* C5: get_registered_url(alias) raises LocationRegistryError exactly when
\* the alias is not in the registry; dealias_url raises LocationRegistryError
\* with the URL alias://<alias>, and not the circular-dependency error, when
\* a hop names an alias that is not registered; the registry is unchanged.
C5_MissingAliasRaises ==
  /\ [](op = "get_registered_url" =>
          /\ (pc = "raised") <=> (arg_alias \notin DOMAIN registry)
          /\ pc = "raised" =>
               /\ ret.type = "LocationRegistryError"
               /\ ret.url = AliasUrl(arg_alias)
          /\ pc = "returned" => ret.url = registry[arg_alias])
  /\ [][LooksUpMissing =>
          /\ pc' = "raised"
          /\ ret'.type = "LocationRegistryError"
          /\ ret'.url = AliasUrl(hostname(urlparse(url)))
          /\ registry' = registry]_vars
  /\ [][(pc = "idle" /\ op' = "get_registered_url") => registry' = registry]_vars

C5_Witness ==
  /\ op = "dealias_url"
  /\ pc = "raised"
  /\ ret.type = "LocationRegistryError"
  /\ Len(trail) >= 1
  /\ registry # <<>>

\* C6: dealias_url returns its input unchanged when the scheme is not the
\* alias scheme, every URL it returns has a scheme that is not the alias
\* scheme, and dealias_url(dealias_url(u)) = dealias_url(u) when it succeeds.
C6_DealiasIdempotent ==
  (op = "dealias_url" /\ pc = "returned")
    => /\ urlparse(arg_url).scheme # "alias" => ret.url = arg_url
       /\ urlparse(ret.url).scheme # "alias"
       /\ dealias_url(registry, ret.url, <<>>) = ret

C6_Witness ==
  /\ op = "dealias_url"
  /\ pc = "returned"
  /\ Len(trail) >= 2

-----------------------------------------------------------------------------
(* Properties of merge_urls *)

MergeReturned == op = "merge_urls" /\ pc = "returned"

Present(v) == v # NoneValue /\ v # ""

\* C7: for each of scheme, host, username and password the result takes
\* url's value if url has that component present and non-empty, and
\* otherwise keeps base_url's value, each component on its own.
C7_ComponentPrecedence ==
  MergeReturned =>
    /\ ret.url.scheme = IF arg_url.scheme # "" THEN LowerScheme(arg_url.scheme)
                        ELSE LowerScheme(arg_base_url.scheme)
    /\ hostname(ret.url) = IF arg_url.host # <<>> THEN hostname(arg_url)
                           ELSE hostname(arg_base_url)
    /\ ret.url.username = IF Present(arg_url.username) THEN arg_url.username
                          ELSE arg_base_url.username
    /\ ret.url.password = IF Present(arg_url.password) THEN arg_url.password
                          ELSE arg_base_url.password

\* C8: the locator parameters of the result (what strip_locator_parameters
\* returns for it) are base_url's locator parameters overlaid by url's, url
\* winning on every shared key, and the query of the result ends with the
\* sentinel followed by those parameters sorted by key.
C8_LocatorParametersOverlay ==
  MergeReturned =>
    /\ DOMAIN LocatorParametersOf(ret.url)
         = (DOMAIN LocatorParametersOf(arg_base_url)) \cup (DOMAIN LocatorParametersOf(arg_url))
    /\ \A k \in DOMAIN LocatorParametersOf(ret.url) :
         LocatorParametersOf(ret.url)[k]
           = IF k \in DOMAIN LocatorParametersOf(arg_url)
             THEN LocatorParametersOf(arg_url)[k]
             ELSE LocatorParametersOf(arg_base_url)[k]
    /\ \E n \in 0..Len(ret.url.query) :
         /\ n = Cardinality(DOMAIN LocatorParametersOf(ret.url))
         /\ Len(ret.url.query) >= n + 1
         /\ Entries(ret.url.query)[Len(ret.url.query) - n] = Sentinel
         /\ \A i \in 1..n :
              /\ Entries(ret.url.query)[Len(ret.url.query) - n + i][1]
                   \in DOMAIN LocatorParametersOf(ret.url)
              /\ Entries(ret.url.query)[Len(ret.url.query) - n + i][2]
                   = LocatorParametersOf(ret.url)[Entries(ret.url.query)[Len(ret.url.query) - n + i][1]]
         /\ \A i, j \in 1..n :
              i < j => KeyRank(Entries(ret.url.query)[Len(ret.url.query) - n + i][1])
                         < KeyRank(Entries(ret.url.query)[Len(ret.url.query) - n + j][1])

C8_Witness ==
  /\ MergeReturned
  /\ \E k \in (DOMAIN LocatorParametersOf(arg_base_url)) \cap (DOMAIN LocatorParametersOf(arg_url)) :
       LocatorParametersOf(arg_base_url)[k] # LocatorParametersOf(arg_url)[k]

\* C9: the plain query of the result is base_url's query parameter list
\* followed by url's query parameter list, each in its original order; a key
\* present in both appears twice and no entry is removed or deduplicated.
C9_QueryConcatenated ==
  MergeReturned =>
    PlainEntries(ret.url) = PlainEntries(arg_base_url) \o PlainEntries(arg_url)

\* url's path resolved relative to base_url's path
RelativeTo(base_path, path) ==
  IF path = <<>> THEN base_path
  ELSE IF base_path = <<>> THEN path
  ELSE urljoin(base_path, WithoutLeadingSlash(path))

\* C10: the result path is url's path resolved relative to base_url's path:
\* below a base path that ends with '/', in place of the last segment of one
\* that does not, the base path when url's path is empty, url's path when
\* the base path is empty.
C10_PathResolvedRelative ==
  MergeReturned =>
    ret.url.path = RelativeTo(arg_base_url.path, arg_url.path)

-----------------------------------------------------------------------------
(* Properties of strip_locator_parameters *)

StripReturned == op = "strip_locator_parameters" /\ pc = "returned"

\* C11: strip_locator_parameters(url) splits the query at the last pair
\* locator=1: every pair after it becomes a locator parameter, every pair
\* before it stays in the query of the returned URL in its original order,
\* the sentinel is removed; without a pair locator=1 it returns (url, {})
\* with the URL unchanged.
C11_StripSplitsAtLastSentinel ==
  StripReturned =>
    IF LastIndex(Entries(arg_url.query), Sentinel) = 0
    THEN ret.url = arg_url /\ ret.parameters = <<>>
    ELSE /\ Entries(ret.url.query)
              = SubSeq(Entries(arg_url.query), 1,
                       LastIndex(Entries(arg_url.query), Sentinel) - 1)
         /\ ret.parameters
              = DictOf(SubSeq(Entries(arg_url.query),
                              LastIndex(Entries(arg_url.query), Sentinel) + 1,
                              Len(arg_url.query)))

-----------------------------------------------------------------------------
(* Properties of Encryptor.encrypt, Decryptor.decrypt and Encryptor.decipher *)

\* the symmetric key encrypt used: what its key pair reads in the metadata
UsedKey == decrypted_key(arg_self.encryptor.public_key, sealed.metadata.key).data

UsedIv == sealed.metadata.initialization_vector

\* the decryptor holds the private key of the encryptor's public key
SamePair == arg_self.decryptor.private_key = arg_self.encryptor.public_key

\* decrypt was handed what encrypt returned, by a decryptor of the same pair
DecryptedSealed == op = "decrypt" /\ SamePair /\ arg_metadata = <<sealed.metadata>>

\* decipher was handed the enciphered bytes with the key and IV that made them
DecipheredSealed ==
  /\ op = "decipher"
  /\ arg_options.key.bytes = UsedKey
  /\ arg_options.initialization_vector.bytes = UsedIv

\* C12: for any bytes d, the empty sequence and several blocks included,
\* and an Encryptor and Decryptor of the same key pair,
\* decrypt(*encrypt(d)) returns exactly d, with the symmetric key and IV
\* generated or supplied; so does decipher of encipher with the same key
\* and IV.
C12_DecryptOfEncrypt ==
  (DecryptedSealed \/ DecipheredSealed) => ret = ReturnedBytes(arg_data)

C12_Witness ==
  /\ DecryptedSealed
  /\ pc = "returned"
  /\ Len(arg_data) = 2 * BlockSize
  /\ arg_options.key.given
  /\ ~arg_options.initialization_vector.given

\* the reader used a symmetric key or an IV other than the one encrypt used
WrongKeyOrIv ==
  \/ /\ op = "decrypt"
     /\ SamePair
     /\ \/ decrypted_key(arg_self.decryptor.private_key, arg_metadata[1].key).data # UsedKey
        \/ arg_metadata[1].initialization_vector # UsedIv
  \/ /\ op = "decipher"
     /\ \/ arg_options.key.bytes # UsedKey
        \/ arg_options.initialization_vector.bytes # UsedIv

\* C18: decryption with a symmetric key or an initialization vector other
\* than the one used to encrypt always ends in an error and never returns
\* bytes.
C18_WrongKeyOrIvRaises == WrongKeyOrIv => ret.kind = "raise"

-----------------------------------------------------------------------------
(* Properties of the envelope *)

\* strip_metadata was handed the envelope append_metadata made of the
\* ciphertext and the metadata
StrippedAppended ==
  /\ op = "strip_metadata"
  /\ sealed.data = append_metadata(arg_data, arg_metadata[1])

\* C13: for any ciphertext c and metadata m (key bytes, IV bytes, name),
\* strip_metadata(append_metadata(c, m)) returns c and a metadata with the
\* same key, initialization_vector and name, so that decrypting the stripped
\* pair is decrypting the original pair.
C13_StripOfAppend ==
  StrippedAppended =>
    ret = [kind |-> "return", data |-> arg_data, metadata |-> arg_metadata[1]]

C13_Witness ==
  /\ StrippedAppended
  /\ optimize
  /\ Len(arg_data) > 255
  /\ Len(arg_metadata[1].name) = 2
  /\ Len(arg_metadata[1].key) = 2
  /\ Len(arg_metadata[1].initialization_vector) = 1

\* the length n written on 8 bytes, the high byte first, for n < 2^24
BigEndian8(n) ==
  <<0, 0, 0, 0, 0, (n \div 65536) % 256, (n \div 256) % 256, n % 256>>

\* where the k-th part of a buffer ends, reading k parts from its start
\* and each part behind its 8-byte length; -1 when the buffer is too short
\* for a length or a declared length runs past its end
RECURSIVE PartEnd(_, _)
PartBehind(buffer, from) ==
  IF from < 0 \/ from + LengthSize > Len(buffer) THEN -1
  ELSE IF FromBytes(SubSeq(buffer, from + 1, from + LengthSize), 0)
            > Len(buffer) - from - LengthSize
  THEN -1
  ELSE from + LengthSize + FromBytes(SubSeq(buffer, from + 1, from + LengthSize), 0)

PartEnd(buffer, k) == IF k = 0 THEN 0 ELSE PartBehind(buffer, PartEnd(buffer, k - 1))

\* the buffer is exactly four parts
FourParts(buffer) == PartEnd(buffer, 4) = Len(buffer)

\* the third part of a buffer of four parts
ThirdPart(buffer) == SubSeq(buffer, PartEnd(buffer, 2) + LengthSize + 1, PartEnd(buffer, 3))

\* C17: strip_metadata reads exactly four length-prefixed parts and raises
\* EncryptionMetadataError, returning nothing, whenever the buffer is too
\* short for one of the four 8-byte lengths, a declared length runs past
\* the end of the buffer, or bytes remain after the fourth part; it succeeds
\* for every buffer that is exactly four well-formed parts with a UTF-8
\* name.
C17_StripRejectsMalformed ==
  op = "strip_metadata" =>
    /\ ~FourParts(sealed.data) => ret = EncryptionMetadataError
    /\ (FourParts(sealed.data) /\ Utf8Decode(ThirdPart(sealed.data)).kind = "return")
         => ret.kind = "return"

\* C20: append_metadata(data, metadata) returns exactly the wrapped key,
\* the IV, the UTF-8 encoded name and the ciphertext, in this order, each
\* behind its byte length as an 8-byte big-endian unsigned integer, and
\* nothing else: the envelope is 32 bytes longer than the four fields.
C20_EnvelopeLayout ==
  (op = "append_metadata" /\ pc = "returned") =>
    /\ ret.data
         = BigEndian8(Len(arg_metadata[1].key)) \o arg_metadata[1].key
           \o BigEndian8(Len(arg_metadata[1].initialization_vector))
           \o arg_metadata[1].initialization_vector
           \o BigEndian8(Len(Utf8Encode(arg_metadata[1].name)))
           \o Utf8Encode(arg_metadata[1].name)
           \o BigEndian8(Len(arg_data)) \o arg_data
    /\ Len(ret.data)
         = 32 + Len(arg_metadata[1].key) + Len(arg_metadata[1].initialization_vector)
           + Len(Utf8Encode(arg_metadata[1].name)) + Len(arg_data)

C20_Witness ==
  /\ op = "append_metadata"
  /\ pc = "returned"
  /\ Len(arg_data) > 255
  /\ Len(arg_metadata[1].name) = 2
  /\ Len(Utf8Encode(arg_metadata[1].name)) = 5
  /\ Len(ret.data) = 32 + 2 + 1 + 5 + 300

-----------------------------------------------------------------------------
(* Properties of the registries *)

\* C15: in every state reached by register_encryptor, register_decryptor,
\* push_registries and pop_registries, each name that has a registered
\* decryptor also has a registered encryptor derived from that decryptor's
\* key pair.
C15_DecryptorHasItsEncryptor ==
  \A name \in DOMAIN dec_registry :
    /\ name \in DOMAIN enc_registry
    /\ enc_registry[name] = get_encryptor(dec_registry[name])

-----------------------------------------------------------------------------
(* Properties of the lookups in the registries *)

\* what decrypt_with_registry returns for what encrypt_with_registry
\* returned, or what encrypt_with_registry raised
Opened(encrypted) ==
  IF encrypted.kind = "raise" THEN encrypted
  ELSE decrypt_with_registry(dec_registry, encrypted.data, <<>>, ~optimize)

\* decrypt_with_registry(encrypt_with_registry(data, name="n",
\* append_metadata=True)[0]), with the registries as they are
OpenedEnvelope(data, key, urandom) ==
  Opened(encrypt_with_registry(enc_registry, data, NameN, key, NoBytes, TRUE, urandom))

\* the registries hold the decryptor of a key pair and its encryptor under
\* the name "n", as register_decryptor leaves them
RegisteredPair ==
  /\ NameN \in DOMAIN dec_registry
  /\ NameN \in DOMAIN enc_registry
  /\ enc_registry[NameN] = get_encryptor(dec_registry[NameN])

\* decrypt_with_registry was handed, with no metadata, the envelope that
\* encrypt_with_registry made under the name "n"
OpenedSealed ==
  /\ op = "decrypt_with_registry"
  /\ arg_options.name = NameN
  /\ arg_options.append_metadata
  /\ arg_metadata = <<>>

\* C14: after register_decryptor(dec) with dec.name = n, and with no
\* registration of an encryptor, decrypt_with_registry of the envelope
\* encrypt_with_registry(d, name=n, append_metadata=True) returns is d,
\* for any bytes d.
C14_RegistryRoundTrip ==
  /\ op = "register_decryptor" =>
       \A data \in DataInputs(MaxDataBlocks), u \in Urandom :
         OpenedEnvelope(data, NoBytes, u) = ReturnedBytes(data)
  /\ (OpenedSealed /\ RegisteredPair) => ret = ReturnedBytes(arg_data)

C14_Witness ==
  /\ OpenedSealed
  /\ RegisteredPair
  /\ pc = "returned"
  /\ optimize
  /\ Len(arg_data) = 2 * BlockSize
  /\ ~arg_options.key.given
  /\ dec_registry[NameN] = Decryptor(2, NameN)

\* the name decrypt_with_registry looks up: that of the metadata it was
\* handed, or that of the envelope
LookedUpName(metadata) ==
  IF metadata = <<>> THEN sealed.metadata.name ELSE metadata[1].name

\* C19: encrypt_with_registry raises EncryptionRegistryError when no
\* encryptor is registered under the name, decrypt_with_registry raises
\* EncryptionRegistryError when no decryptor is registered under the name of
\* the metadata, handed over or read from a well-formed envelope; nothing
\* is returned and the registries are unchanged.
C19_UnknownNameRaises ==
  [][/\ (op' = "encrypt_with_registry" /\ arg_options'.name \notin DOMAIN enc_registry)
          => /\ ret' = EncryptionRegistryError
             /\ UNCHANGED <<enc_registry, dec_registry, encryptor_registries,
                            decryptor_registries>>
     /\ (op' = "decrypt_with_registry" /\ LookedUpName(arg_metadata') \notin DOMAIN dec_registry)
          => /\ ret' = EncryptionRegistryError
             /\ UNCHANGED <<enc_registry, dec_registry, encryptor_registries,
                            decryptor_registries>>]_vars

\* the name read from an envelope has an encryptor but no decryptor
C19_Witness ==
  /\ op = "decrypt_with_registry"
  /\ arg_metadata = <<>>
  /\ arg_options.append_metadata
  /\ NameN \in DOMAIN enc_registry
  /\ dec_registry = <<>>
  /\ ret = EncryptionRegistryError

-----------------------------------------------------------------------------
(* The network location in merge_urls *)

\* C27: when the overriding URL names no host, merge_urls keeps the base
\* URL's whole network location, host and port, so that dealiasing an alias
\* registered to a URL with an explicit port gives the same host and port.
C27_NetlocKept ==
  (MergeReturned /\ arg_url.host = <<>>) =>
    /\ hostname(ret.url) = hostname(arg_base_url)
    /\ ret.url.port = arg_base_url.port

-----------------------------------------------------------------------------
(* Properties of push_registries and pop_registries *)

\* C28: pop_registries called with no push outstanding fails with an error
\* and leaves the encryptor registry, the decryptor registry and both stacks
\* exactly as they were; and the two stacks have the same depth in every
\* reachable state.
C28_PopOnEmptyLeavesAll ==
  /\ [](Len(encryptor_registries) = Len(decryptor_registries))
  /\ [][(/\ op' = "pop_registries"
         /\ encryptor_registries = <<>>
         /\ decryptor_registries = <<>>)
        => /\ ret'.kind = "raise"
           /\ UNCHANGED <<enc_registry, dec_registry, encryptor_registries,
                          decryptor_registries>>]_vars

\* looking the name up in both registries raises EncryptionRegistryError,
\* from encrypt_with_registry and from decrypt_with_registry
Unresolvable(name) ==
  /\ \A u \in Urandom :
       encrypt_with_registry(enc_registry, <<97>>, name, NoBytes, NoBytes, TRUE, u)
         = EncryptionRegistryError
  /\ decrypt_with_registry(dec_registry, <<97>>, <<Metadata(<<>>, <<>>, name)>>, TRUE)
       = EncryptionRegistryError

\* the registries saved last hold again what they held when they were saved
SavedLast(reg, saved) ==
  saved # <<>> =>
    \A name \in DOMAIN saved[Len(saved)] :
      get_registered(reg, name) = [kind |-> "return", value |-> saved[Len(saved)][name]]

\* C30: immediately after push_registries, and so at the start of every
\* local_registries scope, both registries are empty: a name registered
\* outside cannot be resolved (encrypt_with_registry and
\* decrypt_with_registry raise EncryptionRegistryError) until it is
\* registered again inside, and is resolvable again after the matching pop.
C30_PushEmptiesRegistries ==
  /\ [](op \in {"push_registries", "local_registries.enter"} =>
          /\ enc_registry = <<>>
          /\ dec_registry = <<>>
          /\ Unresolvable(NameN))
  /\ [](op = "register_decryptor" => ~Unresolvable(NameN))
  /\ [][op' \in {"pop_registries", "local_registries.exit"} =>
          /\ SavedLast(enc_registry', encryptor_registries)
          /\ SavedLast(dec_registry', decryptor_registries)]_vars

\* a scope was entered while a decryptor was registered under the name
C30_Witness ==
  /\ op = "local_registries.enter"
  /\ NameN \in DOMAIN decryptor_registries[Len(decryptor_registries)]
  /\ NameN \in DOMAIN encryptor_registries[Len(encryptor_registries)]
  /\ Len(scopes) = 2
  /\ Unresolvable(NameN)

-----------------------------------------------------------------------------
(* Properties of array_condition_query *)

\* the text holds the pieces of sub one after the other
Occurs(text, sub) ==
  \E i \in 1..(Len(text) - Len(sub) + 1) : SubSeq(text, i, i + Len(sub) - 1) = sub

Placeholders(text) == Cardinality({i \in 1..Len(text) : text[i] = "%s"})

\* '<expression> IS [NOT ]NULL'
IsNull(expression, negate) ==
  IF negate THEN <<expression, " IS ", "NOT ", "NULL">> ELSE <<expression, " IS ", "NULL">>

\* '<expression> [NOT ]IN (' and what follows it for n values
InList(expression, negate) ==
  IF negate THEN <<expression, " ", "NOT ", "IN ", "(">> ELSE <<expression, " ", "IN ", "(">>

PlaceholderList(n) ==
  [i \in 1..(2 * n) |-> IF i = 2 * n THEN ")" ELSE IF i % 2 = 1 THEN "%s" ELSE ", "]

\* the values that are not None, in their order
NonNoneValues(values) ==
  [i \in 1..Cardinality({j \in 1..Len(values) : values[j] # NoneValue}) |->
     values[CHOOSE j \in 1..Len(values) :
              /\ values[j] # NoneValue
              /\ Cardinality({k \in 1..j : values[k] # NoneValue}) = i]]

\* C25: for a non-empty values list the query contains
\* '<expression> IS [NOT ]NULL' exactly when None is among the values, and
\* '<expression> [NOT ]IN (...)' with one %s per non-None value exactly when
\* there is a non-None value; both together are joined in parentheses with
\* OR, or with AND when negate is set; substitution_parameters are the
\* non-None values in their original order, so that there are as many
\* placeholders as substitution parameters.
C25_ArrayCondition ==
  (op = "array_condition_query" /\ arg_options.values # <<>>) =>
    /\ Occurs(ret.query, IsNull(arg_options.expression, arg_options.negate))
         <=> (NoneValue \in {arg_options.values[i] : i \in 1..Len(arg_options.values)})
    /\ Occurs(ret.query, InList(arg_options.expression, arg_options.negate))
         <=> (NonNoneValues(arg_options.values) # <<>>)
    /\ NonNoneValues(arg_options.values) # <<>> =>
         Occurs(ret.query,
                InList(arg_options.expression, arg_options.negate)
                \o PlaceholderList(Len(NonNoneValues(arg_options.values))))
    /\ (Occurs(ret.query, IsNull(arg_options.expression, arg_options.negate))
         /\ Occurs(ret.query, InList(arg_options.expression, arg_options.negate)))
         => ret.query
              = <<"(">> \o IsNull(arg_options.expression, arg_options.negate)
                \o <<IF arg_options.negate THEN " AND " ELSE " OR ">>
                \o InList(arg_options.expression, arg_options.negate)
                \o PlaceholderList(Len(NonNoneValues(arg_options.values)))
                \o <<")">>
    /\ ret.substitution_parameters = NonNoneValues(arg_options.values)
    /\ Placeholders(ret.query) = Len(ret.substitution_parameters)

C25_Witness ==
  /\ op = "array_condition_query"
  /\ arg_options.negate
  /\ arg_options.values = <<"a", NoneValue, "">>
  /\ Len(ret.substitution_parameters) = 2
  /\ Placeholders(ret.query) = 2

-----------------------------------------------------------------------------
(* Properties of locator flags, transform and untransform *)

\* the position of the last locator=1 pair of a query as it is written
LastSentinel(q) ==
  IF \E i \in 1..Len(q) : q[i] = Sentinel
  THEN CHOOSE i \in 1..Len(q) :
         q[i] = Sentinel /\ \A j \in (i + 1)..Len(q) : q[j] # Sentinel
  ELSE 0

\* the pairs written behind the last locator=1 pair
Written(u) ==
  IF LastSentinel(u.query) = 0 THEN <<>>
  ELSE SubSeq(u.query, LastSentinel(u.query) + 1, Len(u.query))

WrittenAs(u, k) == SelectSeq(Written(u), LAMBDA pair : pair[1] = k)

IsWritten(u, k) == Len(WrittenAs(u, k)) > 0

WrittenValue(u, k) == IF IsWritten(u, k) THEN WrittenAs(u, k)[Len(WrittenAs(u, k))][2] ELSE ""

TrueValues == {"1", "true", "TRUE", "True", "t", "T", "yes", "Yes", "y", "Y"}

\* C26: get_locator_flag(parameter) returns a boolean for every locator URL
\* and never raises: true exactly when the parameter is written in the URL
\* with one of 1, true, t, yes, y in any case, and false otherwise, also when
\* the parameter is not written in the URL.
C26_FlagIsBoolean ==
  op = "get_locator_flag" =>
    ret = [kind |-> "return",
           value |-> /\ IsWritten(locator.url, arg_options.parameter)
                     /\ WrittenValue(locator.url, arg_options.parameter) \in TrueValues]

\* the steps the written parameters ask for, in the order decrypt, unzip,
\* decode, JSON
Asked(u) ==
  (IF IsWritten(u, "encrypt") THEN <<"decrypt">> ELSE <<>>)
  \o (IF WrittenValue(u, "compress") = "zip" THEN <<"unzip">> ELSE <<>>)
  \o (IF IsWritten(u, "encode") THEN <<"decode">> ELSE <<>>)
  \o (IF WrittenValue(u, "type") = "json" THEN <<"json">> ELSE <<>>)

IsPrefix(s, t) == Len(s) <= Len(t) /\ s = SubSeq(t, 1, Len(s))

\* C21: untransform runs the steps its written locator parameters ask for
\* (encrypt; compress=zip; encode; type=json) in the order decrypt, unzip,
\* decode, JSON, each on what the step before made, and no other step: a call
\* that returns has run all of them, a call that raises has run them up to
\* the one that failed, and with no step asked for the resource is returned
\* as it is.  A None resource is returned with no step run.  transform runs
\* the encrypt step exactly when encrypt is written, and no other step.
C21_StepsInOrder ==
  /\ op = "untransform" =>
       IF resource = NoResource THEN effects = <<>> /\ ret = StepReturned(NoResource)
       ELSE /\ IsPrefix(effects, Asked(locator.url))
            /\ pc = "returned" => effects = Asked(locator.url)
            /\ pc = "raised" => effects # <<>>
            /\ effects = <<>> => ret = StepReturned(resource)
  /\ op = "transform" =>
       IF resource = NoResource THEN effects = <<>> /\ ret = StepReturned(NoResource)
       ELSE /\ effects = (IF IsWritten(locator.url, "encrypt") THEN <<"encrypt">> ELSE <<>>)
            /\ effects = <<>> => ret = StepReturned(resource)

\* the values of encrypt two locators may differ in
EncryptValues == {"n", "m", "x", ""}

\* the same URL with another value of its encrypt locator parameter
WithEncrypt(u, v) ==
  [u EXCEPT !.query =
     [i \in 1..Len(u.query) |->
        IF i > LastSentinel(u.query) /\ u.query[i][1] = "encrypt"
        THEN <<"encrypt", v>> ELSE u.query[i]]]

\* C29: for the same stored bytes and the same registries, untransform on a
\* locator with an encrypt parameter returns the same result, or raises the
\* same error, whatever the value of encrypt is: the decryptor is found by the
\* name in the envelope.
C29_EncryptValueIrrelevant ==
  (op = "untransform" /\ IsWritten(locator.url, "encrypt")) =>
    \A v \in EncryptValues :
      Stepped(untransform(WithEncrypt(locator.url, v), resource, dec_registry, ~optimize))
        = ret

-----------------------------------------------------------------------------
(* Properties of the backends *)

Methods == {"get", "put", "delete", "list"}

\* the directories from the root down to where the components lead from at
RECURSIVE Resolve(_, _)
Resolve(comps, at) ==
  IF Len(comps) = 0 THEN at
  ELSE IF Head(comps) = <<>> \/ Head(comps) = <<".">> THEN Resolve(Tail(comps), at)
  ELSE IF Head(comps) = <<".", ".">>
  THEN Resolve(Tail(comps), IF Len(at) = 0 THEN at ELSE SubSeq(at, 1, Len(at) - 1))
  ELSE Resolve(Tail(comps), Append(at, Head(comps)))

\* the path, made absolute, is a file or directory below the working directory
StrictlyInside(path, cwd) ==
  LET directory == Resolve(Split(cwd), <<>>)
      target == Resolve(Split(path),
                        IF Len(path) > 0 /\ path[1] = "/" THEN <<>> ELSE directory)
  IN Len(target) > Len(directory) /\ SubSeq(target, 1, Len(directory)) = directory

\* the call failed on the safe-mode check, and nothing was run
FailedUnsafe ==
  /\ ret.kind = "raise"
  /\ ret.type = "LocationError"
  /\ ret.url = locator.url
  /\ ret.error = ValueError
  /\ effects = <<>>

\* C23: get, put, delete and list of a FileLocator in safe mode whose path,
\* made absolute, is not strictly inside the working directory fail before
\* any filesystem operation and before transform is run; with safe switched
\* off on the instance the check is skipped and the call goes on.
C23_SafePathFirst ==
  (op \in Methods /\ locator.class = "FileLocator") =>
    /\ (locator.safe /\ ~StrictlyInside(locator.url.path, environment.cwd)) => FailedUnsafe
    /\ ~locator.safe => effects # <<>>

\* the operations of the backends that can fail
BackendOperations ==
  {"open", "mkdir", "rmtree", "remove", "walk", "urlopen", "get_object", "put_object",
   "delete_object", "list_objects", "scp", "ssh"}

Operated == \E i \in 1..Len(effects) : effects[i] \in BackendOperations

\* the methods a class does not implement
Unimplemented(class) ==
  IF class = "ResourceLocator" THEN Methods
  ELSE IF class = "BaseLocator" THEN {"put", "delete", "list"}
  ELSE IF class = "ConstantLocator" THEN {"put", "delete"}
  ELSE IF class = "SSHLocator" THEN {"delete"}
  ELSE {}

IsLocationError == ret.kind = "raise" /\ ret.type = "LocationError" /\ ret.url = locator.url

\* C22: for every locator class and each of get, put, delete and list, a
\* call that fails raises LocationError with the URL of the locator, unless
\* the failure is KeyboardInterrupt or SystemExit, which it raises as they
\* are: nothing else is raised, a failure of the backend operation (an
\* exception, or a process that returns a code other than 0) is not lost,
\* and a method the class does not implement fails in the same way.
C22_FailuresAreLocationErrors ==
  op \in Methods =>
    /\ ret.kind = "raise" =>
         \/ IsLocationError
         \/ ret.type \in Interrupts /\ environment.outcome = ret.type
    /\ (Operated /\ environment.outcome \in Interrupts) => ret = Raised(environment.outcome)
    /\ (Operated /\ environment.outcome \in {"OSError", "nonzero"}) => IsLocationError
    /\ op \in Unimplemented(locator.class) =>
         IsLocationError /\ ret.error = Raised("NotImplementedError")

-----------------------------------------------------------------------------
(* Properties of locator_factory *)

\* the backend of a scheme
BackendOf(scheme) ==
  CASE scheme \in {"", "file"} -> "FileLocator"
    [] scheme = "s3" -> "S3Locator"
    [] scheme = "ssh" -> "SSHLocator"
    [] scheme = "constant" -> "ConstantLocator"
    [] OTHER -> "BaseLocator"

\* C24: locator_factory(url) dealiases url and picks the backend from the
\* scheme of the dealiased URL only: empty or file FileLocator, s3
\* S3Locator, ssh SSHLocator, constant ConstantLocator, any other scheme
\* BaseLocator.  The locator it returns is of the class picked and holds
\* the dealiased URL, whose scheme is never alias.
C24_BackendOfDealiasedScheme ==
  op = "locator_factory" =>
    LET dealiased == dealias_url(registry, arg_url, <<>>)
    IN /\ dealiased.kind = "raise" => ret = dealiased /\ effects = <<>>
       /\ dealiased.kind = "return" =>
            /\ effects = <<BackendOf(urlparse(dealiased.url).scheme)>>
            /\ urlparse(dealiased.url).scheme # "alias"
            /\ pc = "returned" =>
                 /\ ret.locator.class = effects[1]
                 /\ ret.locator.url = dealiased.url
                 /\ locator = ret.locator

\* an alias that leads over a second alias to an s3 URL gave an S3Locator
C24_Witness ==
  /\ op = "locator_factory"
  /\ pc = "returned"
  /\ urlparse(arg_url).scheme = "alias"
  /\ hostname(urlparse(arg_url)) \in DOMAIN registry
  /\ urlparse(registry[hostname(urlparse(arg_url))]).scheme = "alias"
  /\ ret.locator.class = "S3Locator"
  /\ urlparse(ret.locator.url).scheme = "s3"

====
